---------------------------- MODULE Spec2Model ----------------------------
(***************************************************************************)
(* A model of the ingest client (jhuapl-boss/ingest-client): the key codec *)
(* of BossBackend, and the worker engine's upload loop (Engine.run,        *)
(* upload_tile, upload_chunk, upload_cuboid) against the work queue and    *)
(* the object store.                                                       *)
(*                                                                         *)
(* Strings are sequences of character codes (ASCII), so that formatting,   *)
(* splitting, parsing and hashing are computed and not assumed.            *)
(***************************************************************************)
EXTENDS Integers, Sequences, FiniteSets, TLC

(***************************************************************************)
(* Part 1.  Strings: str(), int(), join, split                              *)
(***************************************************************************)

\* The character codes of "0123456789abcdef".
HexDigits ==
    << 48, 49, 50, 51, 52, 53, 54, 55, 56, 57, 97, 98, 99, 100, 101, 102 >>

\* "&", the separator of the key fields, and "-", the sign str() writes.
AmpStr ==
    << 38 >>

MinusStr ==
    << 45 >>

RECURSIVE DigitsOf(_)
\* The decimal digits of n >= 0, most significant first.
DigitsOf(n) ==
    IF n < 10 THEN << 48 + n >>
    ELSE Append(DigitsOf(n \div 10), 48 + (n % 10))

\* Python's str(n) of an integer n.
str(n) ==
    IF n < 0 THEN MinusStr \o DigitsOf(0 - n) ELSE DigitsOf(n)

RECURSIVE join(_, _)
\* Python's sep.join(parts).
join(sep, parts) ==
    IF Len(parts) = 0 THEN << >>
    ELSE IF Len(parts) = 1 THEN parts[1]
    ELSE parts[1] \o sep \o join(sep, Tail(parts))

RECURSIVE split(_, _)
\* Python's s.split(c) for a one-character separator c: always at least
\* one part, empty parts kept.
split(s, c) ==
    IF \A i \in 1..Len(s) : s[i] # c THEN << s >>
    ELSE LET k == CHOOSE i \in 1..Len(s) :
                      s[i] = c /\ \A j \in 1..(i - 1) : s[j] # c
         IN  << SubSeq(s, 1, k - 1) >> \o split(SubSeq(s, k + 1, Len(s)), c)

RECURSIVE DigitsValue(_)
\* The number a non-empty sequence of decimal digits writes.
DigitsValue(d) ==
    IF Len(d) = 1 THEN d[1] - 48
    ELSE 10 * DigitsValue(SubSeq(d, 1, Len(d) - 1)) + (d[Len(d)] - 48)

IsDigits(d) ==
    Len(d) > 0 /\ \A i \in 1..Len(d) : d[i] \in 48..57

\* Python's int(s) on a string of an optional sign and decimal digits: ok is
\* FALSE where int() raises ValueError.
int(s) ==
    IF Len(s) > 0 /\ s[1] \in {43, 45}
    THEN IF IsDigits(Tail(s))
         THEN [ok |-> TRUE,
               val |-> IF s[1] = 45 THEN 0 - DigitsValue(Tail(s))
                       ELSE DigitsValue(Tail(s))]
         ELSE [ok |-> FALSE, val |-> 0]
    ELSE IF IsDigits(s) THEN [ok |-> TRUE, val |-> DigitsValue(s)]
         ELSE [ok |-> FALSE, val |-> 0]

(***************************************************************************)
(* Part 2.  hashlib.md5: RFC 1321 on 32-bit words kept as <<high 16 bits,  *)
(* low 16 bits>>, so that no intermediate value leaves 32-bit integers.    *)
(***************************************************************************)

RECURSIVE And16(_, _)
And16(a, b) ==
    IF a = 0 \/ b = 0 THEN 0
    ELSE (IF a % 2 = 1 /\ b % 2 = 1 THEN 1 ELSE 0)
         + 2 * And16(a \div 2, b \div 2)

RECURSIVE Xor16(_, _)
Xor16(a, b) ==
    IF a = 0 THEN b
    ELSE IF b = 0 THEN a
    ELSE ((a + b) % 2) + 2 * Xor16(a \div 2, b \div 2)

Or16(a, b) ==
    a + b - And16(a, b)

And32(u, v) ==
    << And16(u[1], v[1]), And16(u[2], v[2]) >>

Or32(u, v) ==
    << Or16(u[1], v[1]), Or16(u[2], v[2]) >>

Xor32(u, v) ==
    << Xor16(u[1], v[1]), Xor16(u[2], v[2]) >>

Not32(u) ==
    << 65535 - u[1], 65535 - u[2] >>

\* Addition modulo 2^32.
Add32(u, v) ==
    LET lo == u[2] + v[2]
        hi == u[1] + v[1] + (lo \div 65536)
    IN  << hi % 65536, lo % 65536 >>

\* Rotation to the left by s bits, 0 <= s < 32.
RotL32(u, s) ==
    LET h == IF s >= 16 THEN u[2] ELSE u[1]
        l == IF s >= 16 THEN u[1] ELSE u[2]
        r == s % 16
    IN  IF r = 0 THEN << h, l >>
        ELSE << ((h * (2 ^ r)) % 65536) + (l \div (2 ^ (16 - r))),
                ((l * (2 ^ r)) % 65536) + (h \div (2 ^ (16 - r))) >>

\* floor(2^32 * abs(sin(i))), i = 1..64.
MD5_K ==
    << <<55146, 42104>>, <<59591, 46934>>, <<9248, 28891>>, <<49597, 52974>>,
       <<62844, 4015>>, <<18311, 50730>>, <<43056, 17939>>, <<64838, 38145>>,
       <<27008, 39128>>, <<35652, 63407>>, <<65535, 23473>>, <<35164, 55230>>,
       <<27536, 4386>>, <<64920, 29075>>, <<42617, 17294>>, <<18868, 2081>>,
       <<63006, 9570>>, <<49216, 45888>>, <<9822, 23121>>, <<59830, 51114>>,
       <<54831, 4189>>, <<580, 5203>>, <<55457, 59009>>, <<59347, 64456>>,
       <<8673, 52710>>, <<49975, 2006>>, <<62677, 3463>>, <<17754, 5357>>,
       <<43491, 59653>>, <<64751, 41976>>, <<26479, 729>>, <<36138, 19594>>,
       <<65530, 14658>>, <<34673, 63105>>, <<28061, 24866>>, <<64997, 14348>>,
       <<42174, 59972>>, <<19422, 53161>>, <<63163, 19296>>, <<48831, 48240>>,
       <<10395, 32454>>, <<60065, 10234>>, <<54511, 12421>>, <<1160, 7429>>,
       <<55764, 53305>>, <<59099, 39397>>, <<8098, 31992>>, <<50348, 22117>>,
       <<62505, 8772>>, <<17194, 65431>>, <<43924, 9127>>, <<64659, 41017>>,
       <<25947, 22979>>, <<36620, 52370>>, <<65519, 62589>>, <<34180, 24017>>,
       <<28584, 32335>>, <<65068, 59104>>, <<41729, 17172>>, <<19976, 4513>>,
       <<63315, 32386>>, <<48442, 62005>>, <<10967, 53947>>, <<60294, 54161>> >>

\* The per-round shift amounts.
MD5_S ==
    << 7, 12, 17, 22, 7, 12, 17, 22, 7, 12, 17, 22, 7, 12, 17, 22,
       5, 9, 14, 20, 5, 9, 14, 20, 5, 9, 14, 20, 5, 9, 14, 20,
       4, 11, 16, 23, 4, 11, 16, 23, 4, 11, 16, 23, 4, 11, 16, 23,
       6, 10, 15, 21, 6, 10, 15, 21, 6, 10, 15, 21, 6, 10, 15, 21 >>

\* 0x67452301, 0xefcdab89, 0x98badcfe, 0x10325476.
MD5_Init ==
    << <<26437, 8961>>, <<61389, 43913>>, <<39098, 56574>>, <<4146, 21622>> >>

\* The message with the 0x80 byte, the zero bytes up to 56 modulo 64, and
\* the length in bits as 64 bits, least significant byte first.
MD5_Pad(bytes) ==
    LET n     == Len(bytes)
        zeros == (119 - (n % 64)) % 64
        bits  == 8 * n
    IN  bytes \o << 128 >> \o [i \in 1..zeros |-> 0]
        \o << bits % 256, (bits \div 256) % 256, (bits \div 65536) % 256,
              (bits \div 16777216) % 256, 0, 0, 0, 0 >>

\* Word j (0..15) of the 64-byte block that starts after byte off.
MD5_Word(p, off, j) ==
    << p[off + 4 * j + 3] + 256 * p[off + 4 * j + 4],
       p[off + 4 * j + 1] + 256 * p[off + 4 * j + 2] >>

\* Round i (0..63) on the state st = <<A, B, C, D>> of the block at off.
MD5_Step(st, p, off, i) ==
    LET a == st[1]
        b == st[2]
        c == st[3]
        d == st[4]
        f == IF i < 16 THEN Or32(And32(b, c), And32(Not32(b), d))
             ELSE IF i < 32 THEN Or32(And32(d, b), And32(Not32(d), c))
             ELSE IF i < 48 THEN Xor32(Xor32(b, c), d)
             ELSE Xor32(c, Or32(b, Not32(d)))
        g == IF i < 16 THEN i
             ELSE IF i < 32 THEN (5 * i + 1) % 16
             ELSE IF i < 48 THEN (3 * i + 5) % 16
             ELSE (7 * i) % 16
        s == Add32(Add32(a, f), Add32(MD5_K[i + 1], MD5_Word(p, off, g)))
    IN  << d, Add32(b, RotL32(s, MD5_S[i + 1])), b, c >>

RECURSIVE MD5_Rounds(_, _, _, _, _)
\* Rounds lo..hi-1, by halves, so that the evaluation nests 6 deep and not
\* 64. The test on Len has the first half's state computed before the
\* second half starts (it is always 4).
MD5_Rounds(st, p, off, lo, hi) ==
    IF hi = lo + 1 THEN MD5_Step(st, p, off, lo)
    ELSE LET mid == (lo + hi) \div 2
             half == MD5_Rounds(st, p, off, lo, mid)
         IN  IF Len(half) = 4 THEN MD5_Rounds(half, p, off, mid, hi)
             ELSE half

RECURSIVE MD5_Blocks(_, _, _)
MD5_Blocks(st, p, off) ==
    IF off >= Len(p) THEN st
    ELSE LET r == MD5_Rounds(st, p, off, 0, 64)
         IN  MD5_Blocks(<< Add32(st[1], r[1]), Add32(st[2], r[2]),
                           Add32(st[3], r[3]), Add32(st[4], r[4]) >>,
                        p, off + 64)

HexByte(b) ==
    << HexDigits[(b \div 16) + 1], HexDigits[(b % 16) + 1] >>

\* A word's four bytes, least significant first, in hexadecimal.
HexWord(u) ==
    HexByte(u[2] % 256) \o HexByte(u[2] \div 256)
    \o HexByte(u[1] % 256) \o HexByte(u[1] \div 256)

\* hashlib.md5(); update(bytes); hexdigest().
md5_hexdigest(bytes) ==
    LET st == MD5_Blocks(MD5_Init, MD5_Pad(bytes), 0)
    IN  HexWord(st[1]) \o HexWord(st[2]) \o HexWord(st[3]) \o HexWord(st[4])

(***************************************************************************)
(* Part 3.  The key codec of BossBackend                                   *)
(***************************************************************************)

\* "{}&{}&..." .format(...) on already formatted fields.
format_amp(fields) ==
    join(AmpStr, fields)

encode_tile_key(project_info, resolution, x_index, y_index, z_index, t_index) ==
    LET proj_str == join(AmpStr, [i \in 1..Len(project_info) |->
                                      str(project_info[i])])
        base_key == format_amp(<< proj_str, str(resolution), str(x_index),
                                  str(y_index), str(z_index), str(t_index) >>)
    IN  format_amp(<< md5_hexdigest(base_key), base_key >>)

\* An encoder whose hash leaves num_tiles out.
encode_chunk_key_tile_hash(num_tiles, project_info, resolution, x_index, y_index, z_index, t_index) ==
    LET proj_str == join(AmpStr, [i \in 1..Len(project_info) |->
                                      str(project_info[i])])
        tile_base == format_amp(<< proj_str, str(resolution), str(x_index),
                                   str(y_index), str(z_index), str(t_index) >>)
        base_key == format_amp(<< str(num_tiles), tile_base >>)
    IN  format_amp(<< md5_hexdigest(tile_base), base_key >>)

encode_chunk_key(num_tiles, project_info, resolution, x_index, y_index, z_index, t_index) ==
    LET proj_str == join(AmpStr, [i \in 1..Len(project_info) |->
                                      str(project_info[i])])
        base_key == format_amp(<< str(num_tiles), proj_str, str(resolution),
                                  str(x_index), str(y_index), str(z_index),
                                  str(t_index) >>)
    IN  format_amp(<< md5_hexdigest(base_key), base_key >>)

\* What decode_*_key gives where it raises (IndexError for a missing part,
\* ValueError for a part that is no integer).
KeyRaises ==
    [ok |-> FALSE]

\* parts[1] .. parts[8] of the source are parts[2] .. parts[9] here.
decode_tile_key(key) ==
    LET parts == split(key, 38)
    IN  IF Len(parts) < 9 \/ \E i \in 2..9 : ~int(parts[i]).ok
        THEN KeyRaises
        ELSE [ok |-> TRUE,
              collection |-> int(parts[2]).val,
              experiment |-> int(parts[3]).val,
              channel |-> int(parts[4]).val,
              resolution |-> int(parts[5]).val,
              x_index |-> int(parts[6]).val,
              y_index |-> int(parts[7]).val,
              z_index |-> int(parts[8]).val,
              t_index |-> int(parts[9]).val]

\* A decoder that reads a chunk key at the tile key's positions.
decode_chunk_key_at_tile_positions(key) ==
    LET parts == split(key, 38)
    IN  IF Len(parts) < 10 \/ \E i \in 2..10 : ~int(parts[i]).ok
        THEN KeyRaises
        ELSE [ok |-> TRUE,
              num_tiles |-> int(parts[2]).val,
              collection |-> int(parts[2]).val,
              experiment |-> int(parts[3]).val,
              channel |-> int(parts[4]).val,
              resolution |-> int(parts[5]).val,
              x_index |-> int(parts[6]).val,
              y_index |-> int(parts[7]).val,
              z_index |-> int(parts[8]).val,
              t_index |-> int(parts[9]).val]

decode_chunk_key(key) ==
    LET parts == split(key, 38)
    IN  IF Len(parts) < 10 \/ \E i \in 2..10 : ~int(parts[i]).ok
        THEN KeyRaises
        ELSE [ok |-> TRUE,
              num_tiles |-> int(parts[2]).val,
              collection |-> int(parts[3]).val,
              experiment |-> int(parts[4]).val,
              channel |-> int(parts[5]).val,
              resolution |-> int(parts[6]).val,
              x_index |-> int(parts[7]).val,
              y_index |-> int(parts[8]).val,
              z_index |-> int(parts[9]).val,
              t_index |-> int(parts[10]).val]

(***************************************************************************)
(* Part 4.  The worker engine: state                                       *)
(*                                                                         *)
(* Time is counted in ticks; get_task (the receive and its sleeps) and an  *)
(* object put may take one.                                                *)
(* The work queue and the two buckets are the remote services' state as    *)
(* the worker's calls change it.                                           *)
(*                                                                         *)
(* The locals of upload_tile and upload_chunk (the task, the handle, the   *)
(* position among the cuboids) are dropped where the call returns.         *)
(*                                                                         *)
(* Engine.join (engine.py:189) assigns six names from backend.join and     *)
(* then reads the clock. BossBackend.join as of backend.py:498 returns     *)
(* seven values (tile_index_queue added), which the assignment rejects     *)
(* with ValueError: that is the raising outcome of a join here. The        *)
(* succeeding outcome is that of a backend whose join returns the six      *)
(* values engine.py:189 names, as test_debug.py:100 has it.                *)
(***************************************************************************)

\* Bounds of the model.
NumTasks ==
    2

MaxCuboids ==
    2

MaxTime ==
    2

CredTimeoutTicks ==
    1

MaxWait ==
    2

NumHandles ==
    2

MaxPutFailures ==
    1

\* Program constants.
DatetimeMin ==
    -1000

MaxSameError ==
    20

GetTaskTries ==
    19

InvalidKeyRejoinEvery ==
    5

VARIABLES
    ingest_type,              \* config: "tile" or "volumetric"
    msg_wait_iterations,      \* Engine.msg_wait_iterations
    pc,                       \* where the worker is
    now,                      \* the clock, in ticks
    credential_create_time,
    credentials,
    job_status,
    access_denied,
    access_denied_count,
    invalid_access_key,
    invalid_access_key_count,
    wait_cnt,
    task,                     \* (message_id, receipt_handle, msg) of get_task
    handle,                   \* the tile reader's file handle
    cuboid_idx,               \* upload_chunk's position in msg['cuboids']
    upload_queue,             \* the work queue: message id -> status, handle
    bucket,                   \* tile bucket: key -> object
    volumetric_bucket,        \* cuboid bucket: key -> object
    \* History of the run, read by the properties only.
    cuboid_log,               \* outcomes of the current task's cuboid puts
    empty_polls,              \* get_task calls in a row that gave no message
    exit_by,                  \* how run() ended
    check_time,               \* when the loop last checked the credentials' age
    put_failures,             \* failed puts so far
    put_count,                \* key -> successful puts, counted to 2
    \* The codec's harness.
    codec_pc,
    codec_in,
    codec_key,
    codec_out,
    \* The worker pool, the cuboid carving, the backend's calls, the
    \* coordinator and the worker's loop with its counters, each the state
    \* of a specification of its own below.
    pool,
    carve,
    call,
    client,
    worker

engine_vars ==
    << ingest_type, msg_wait_iterations, pc, now, credential_create_time,
       credentials, job_status, access_denied, access_denied_count,
       invalid_access_key, invalid_access_key_count, wait_cnt, task, handle,
       cuboid_idx, upload_queue, bucket, volumetric_bucket, cuboid_log,
       empty_polls, exit_by, check_time, put_failures, put_count >>

codec_vars ==
    << codec_pc, codec_in, codec_key, codec_out >>

vars ==
    << engine_vars, codec_vars, pool, carve, call, client, worker >>

\* What the single worker's steps, and the codec's, leave alone.
outside_engine ==
    << codec_vars, pool, carve, call, client, worker >>

outside_codec ==
    << engine_vars, pool, carve, call, client, worker >>

\* A part that takes no step in the specification at hand.
PoolOff ==
    pool = "off"

CarveOff ==
    carve = "off"

CallOff ==
    call = "off"

ClientOff ==
    client = "off"

WorkerOff ==
    worker = "off"

\* backend.credential_timeout (3300 s), in ticks.
credential_timeout ==
    CredTimeoutTicks

Msgs ==
    1..NumTasks

Handles ==
    1..NumHandles

\* (collection, experiment, channel) of the job.
ProjectInfo ==
    << 1, 2, 3 >>

\* The job's tasks, as the ingest service enqueues them: one per tile (or
\* chunk), here one per time index, so no two tasks share a key.
TileKeyTable ==
    [m \in Msgs |-> encode_tile_key(ProjectInfo, 0, 5, 6, 1, m - 1)]

ChunkKeyTable ==
    [m \in Msgs |-> encode_chunk_key(16, ProjectInfo, 0, 5, 6, 1, m - 1)]

TileKeyOf(m) ==
    TileKeyTable[m]

ChunkKeyOf(m) ==
    ChunkKeyTable[m]

NumCuboidsOf(m) ==
    ((m - 1) % MaxCuboids) + 1

\* Cuboid keys are the service's; the client only passes them on.
CuboidsOf(m) ==
    [i \in 1..NumCuboidsOf(m) |->
        [x |-> 512 * (i - 1), y |-> 0, z |-> 0, key |-> << m, i >>]]

TileBody(m) ==
    [tile_key |-> TileKeyOf(m), chunk_key |-> ChunkKeyOf(m)]

ChunkBody(m) ==
    [chunk_key |-> ChunkKeyOf(m), cuboids |-> CuboidsOf(m)]

NoTask ==
    [message_id |-> 0, receipt_handle |-> 0]

NoHandle ==
    [data |-> << >>, pos |-> 0]

NoObject ==
    [present |-> FALSE]

\* The engine's configuration and job: ingest_job_id, the tile size of the
\* configuration document, and join's params, which every object's
\* metadata carries.
Job ==
    [ingest_job_id |-> 23, x_size |-> 512, y_size |-> 512,
     job_params |-> "params"]

\* What the tile reader returns for (x, y, z, t): the file's bytes.
TilePayload(x, y, z, t) ==
    << x, y, z, t >>

\* What a file-like Body uploads: the bytes from the handle's position on.
ReadToEnd(h) ==
    SubSeq(h.data, h.pos + 1, Len(h.data))

\* What the chunk reader returns for (x, y, z): the chunk's array.
ChunkPayload(x, y, z) ==
    << x, y, z >>

\* blosc.compress of the cuboid carved at (x, y, z) out of the chunk; the
\* carving itself is not modelled here.
CompressedCuboid(chunk, x, y, z) ==
    << chunk, x, y, z >>

TileKeys ==
    { TileKeyOf(m) : m \in Msgs }

CuboidKeys ==
    UNION { { CuboidsOf(m)[i].key : i \in 1..NumCuboidsOf(m) } : m \in Msgs }

(***************************************************************************)
(* Part 5.  The worker engine: operations                                  *)
(***************************************************************************)

\* get_task or a put takes d ticks; the clock stops at MaxTime.
Durations ==
    { d \in 0..1 : now + d <= MaxTime }

\* A test of the age that never asks for a rejoin.
CredentialsNeverExpire(t, created) ==
    FALSE

\* A test of the age that allows one tick more.
CredentialsExpiredLate(t, created) ==
    (t - created) > credential_timeout + 1

\* run()'s test of the credentials' age (engine.py:344-345).
CredentialsExpired(t, created) ==
    (t - created) > credential_timeout

\* A test that waits for one empty poll more.
KeepWaitingOneMore(cnt, iterations) ==
    cnt <= iterations

\* run()'s test after an empty poll: TRUE where the loop goes on.
KeepWaiting(cnt, iterations) ==
    cnt < iterations

RECURSIVE get_task_loop(_, _)
\* get_task's receive loop when the next `fails` receives raise ClientError:
\* "received" (receive_messages returned), "None" (the loop ran out and msg
\* is still None) or "raise".
get_task_loop(try_cnt, fails) ==
    IF try_cnt < GetTaskTries
    THEN IF fails > 0
         THEN IF try_cnt + 1 >= 20 THEN "raise"
              ELSE get_task_loop(try_cnt + 1, fails - 1)
         ELSE "received"
    ELSE "None"

\* The except clause of upload_tile: the flags and counters after a put
\* that raised an error of `kind`, and upload_tile's return value.
upload_tile_except(kind, ad, adc, iak, iakc) ==
    IF kind = "AccessDenied"
    THEN [access_denied |-> TRUE, access_denied_count |-> adc + 1,
          invalid_access_key |-> iak, invalid_access_key_count |-> iakc,
          ret |-> ~(adc + 1 >= MaxSameError)]
    ELSE IF kind = "InvalidAccessKeyId"
    THEN [access_denied |-> ad, access_denied_count |-> adc,
          invalid_access_key |-> TRUE, invalid_access_key_count |-> iakc + 1,
          ret |-> ~(iakc + 1 >= MaxSameError)]
    ELSE [access_denied |-> ad, access_denied_count |-> adc,
          invalid_access_key |-> iak, invalid_access_key_count |-> iakc,
          ret |-> TRUE]

\* The except clause of upload_cuboid, and upload_cuboid's return value.
upload_cuboid_except(kind, ad, adc, iak, iakc) ==
    IF kind = "AccessDenied"
    THEN [access_denied |-> TRUE, access_denied_count |-> adc + 1,
          invalid_access_key |-> iak, invalid_access_key_count |-> iakc,
          ret |-> ~(adc + 1 >= MaxSameError)]
    ELSE IF kind = "InvalidAccessKeyId"
    THEN [access_denied |-> ad, access_denied_count |-> adc,
          invalid_access_key |-> TRUE, invalid_access_key_count |-> iakc + 1,
          ret |-> ~(iakc + 1 >= MaxSameError)]
    ELSE [access_denied |-> ad, access_denied_count |-> adc,
          invalid_access_key |-> iak, invalid_access_key_count |-> iakc,
          ret |-> TRUE]

\* A Metadata without the receipt handle.
tile_metadata_without_handle(msg, message_id, receipt_handle) ==
    [message_id |-> message_id,
     metadata |-> [chunk_key |-> msg.chunk_key,
                   ingest_job |-> Job.ingest_job_id,
                   parameters |-> Job.job_params,
                   x_size |-> Job.x_size,
                   y_size |-> Job.y_size]]

\* The Metadata of upload_tile's put_object.
tile_metadata(msg, message_id, receipt_handle) ==
    [message_id |-> message_id,
     receipt_handle |-> receipt_handle,
     metadata |-> [chunk_key |-> msg.chunk_key,
                   ingest_job |-> Job.ingest_job_id,
                   parameters |-> Job.job_params,
                   x_size |-> Job.x_size,
                   y_size |-> Job.y_size]]

\* The Metadata of upload_cuboid's put_object.
cuboid_metadata(chunk_key) ==
    [metadata |-> [ingest_job |-> Job.ingest_job_id,
                   chunk_key |-> chunk_key,
                   parameters |-> Job.job_params]]

\* An upload that leaves the handle where the reader left it.
no_seek(h) ==
    h

\* handle.seek(0) of upload_tile.
seek0(h) ==
    [h EXCEPT !.pos = 0]

\* Where upload_chunk goes after the cuboid at idx of n, whose upload
\* returned ret: the next cuboid, delete_task, or out with False.
upload_chunk_next(ret, idx, n) ==
    IF ~ret THEN "abort"
    ELSE IF idx < n THEN "put_cuboid"
    ELSE "delete_task"

\* An upload_tile that goes on to delete_task, as upload_chunk does.
upload_tile_then_delete(ret) ==
    IF ret THEN "delete_task" ELSE "abort"

\* Where upload_tile's caller goes: upload_tile ends with its put.
upload_tile_next(ret) ==
    IF ret THEN "loop" ELSE "abort"

PutOutcomes ==
    { "ok", "AccessDenied", "InvalidAccessKeyId", "Other" }

\* An object put may fail only MaxPutFailures times in a run of the model.
AllowedOutcomes ==
    IF put_failures < MaxPutFailures THEN PutOutcomes ELSE { "ok" }

history_vars ==
    << cuboid_log, empty_polls, exit_by, check_time, put_failures,
       put_count >>

config_vars ==
    << ingest_type, msg_wait_iterations >>

flag_vars ==
    << access_denied, access_denied_count, invalid_access_key,
       invalid_access_key_count >>

store_vars ==
    << bucket, volumetric_bucket, put_count >>

\* The job status a join returns: backend.join returns only a job that is
\* no longer PREPARING (0), with credentials, or raises.
JoinStatuses ==
    { 1, 2 }

\* worker_process_run: the engine joins the job before run().
EngineJoin ==
    /\ pc = "new"
    /\ \E ok \in BOOLEAN, st \in JoinStatuses :
          /\ now' = now
          /\ IF ok
             THEN /\ job_status' = st
                  /\ credentials' = "creds"
                  /\ credential_create_time' = now
                  /\ pc' = "joined"
                  /\ exit_by' = exit_by
             ELSE /\ pc' = "raised"
                  /\ exit_by' = "raised"
                  /\ UNCHANGED << job_status, credentials,
                                  credential_create_time >>
    /\ UNCHANGED << config_vars, flag_vars, wait_cnt, task, handle, cuboid_idx,
                    upload_queue, store_vars, cuboid_log, empty_polls,
                    check_time, put_failures, outside_engine >>

\* run() up to its loop: the three refusals, then the flags are reset.
RunStart ==
    /\ pc = "joined"
    /\ IF credentials = "None" \/ job_status = 0 \/ job_status = 2
       THEN /\ pc' = "raised"
            /\ exit_by' = "raised"
            /\ UNCHANGED << flag_vars, wait_cnt >>
       ELSE /\ access_denied' = FALSE
            /\ access_denied_count' = 0
            /\ invalid_access_key' = FALSE
            /\ invalid_access_key_count' = 0
            /\ wait_cnt' = 0
            /\ pc' = "loop"
            /\ exit_by' = exit_by
    /\ UNCHANGED << config_vars, now, credential_create_time, credentials,
                    job_status, task, handle, cuboid_idx, upload_queue,
                    store_vars, cuboid_log, empty_polls, check_time,
                    put_failures, outside_engine >>

\* The top of the loop (engine.py:334-349): the stale marks, the age test,
\* and the rejoin where the credentials are too old.
LoopTop ==
    /\ pc = "loop"
    /\ LET marked1 == IF access_denied THEN DatetimeMin
                      ELSE credential_create_time
           marked  == IF invalid_access_key
                         /\ invalid_access_key_count % InvalidKeyRejoinEvery
                            = InvalidKeyRejoinEvery - 1
                      THEN DatetimeMin ELSE marked1
       IN  /\ access_denied' = FALSE
           /\ invalid_access_key' = FALSE
           /\ UNCHANGED << access_denied_count, invalid_access_key_count >>
           /\ IF CredentialsExpired(now, marked)
              THEN \E ok \in BOOLEAN, st \in JoinStatuses :
                      /\ now' = now
                      /\ check_time' = now
                      /\ IF ok
                         THEN /\ job_status' = st
                              /\ credentials' = "creds"
                              /\ credential_create_time' = now
                              /\ pc' = "get_task"
                              /\ exit_by' = exit_by
                         ELSE /\ credential_create_time' = marked
                              /\ pc' = "raised"
                              /\ exit_by' = "raised"
                              /\ UNCHANGED << job_status, credentials >>
              ELSE /\ credential_create_time' = marked
                   /\ check_time' = now
                   /\ pc' = "get_task"
                   /\ UNCHANGED << now, job_status, credentials, exit_by >>
    /\ UNCHANGED << config_vars, wait_cnt, task, handle, cuboid_idx,
                    upload_queue, store_vars, cuboid_log, empty_polls,
                    put_failures, outside_engine >>

\* A message's body: the queue never changes it.
MessageBody(m) ==
    IF ingest_type = "tile" THEN TileBody(m) ELSE ChunkBody(m)

Visible ==
    { m \in Msgs : upload_queue[m].status = "visible" }

\* The receipt handle of a message's next delivery: each delivery has its
\* own, here numbered round the Handles.
NextHandle(h) ==
    (h % NumHandles) + 1

\* backend.get_task and run()'s handling of its result (engine.py:352-373).
\* The receive, when it is not refused, gives a visible message if there is
\* one, under a new receipt handle, and hides it.
GetTask ==
    /\ pc = "get_task"
    /\ \E d \in Durations, fails \in { 0, GetTaskTries } :
          /\ now' = now + d
          /\ LET r == get_task_loop(0, fails)
             IN  IF r = "raise"
                 THEN /\ pc' = "raised"
                      /\ exit_by' = "raised"
                      /\ UNCHANGED << wait_cnt, task, upload_queue,
                                      empty_polls >>
                 ELSE IF r = "received" /\ Visible # { }
                 THEN \E m \in Visible :
                         LET h == NextHandle(upload_queue[m].handle)
                         IN  /\ upload_queue' =
                                   [upload_queue EXCEPT
                                       ![m] = [status |-> "inflight",
                                               handle |-> h]]
                             /\ task' = [message_id |-> m,
                                         receipt_handle |-> h,
                                         msg |-> MessageBody(m)]
                             /\ wait_cnt' = 0
                             /\ empty_polls' = 0
                             /\ pc' = IF ingest_type = "tile"
                                      THEN "upload_tile" ELSE "upload_chunk"
                             /\ exit_by' = exit_by
                 ELSE /\ wait_cnt' = wait_cnt + 1
                      /\ empty_polls' = empty_polls + 1
                      /\ IF KeepWaiting(wait_cnt + 1, msg_wait_iterations)
                         THEN pc' = "loop" /\ exit_by' = exit_by
                         ELSE pc' = "done" /\ exit_by' = "drained"
                      /\ UNCHANGED << task, upload_queue >>
    /\ UNCHANGED << config_vars, credential_create_time, credentials,
                    job_status, flag_vars, handle, cuboid_idx, store_vars,
                    cuboid_log, check_time, put_failures >>
    /\ UNCHANGED outside_engine

\* An object whose body carries the receipt handle of its delivery.
tile_object_stamped(h, t) ==
    [present |-> TRUE,
     body |-> Append(ReadToEnd(seek0(h)), t.receipt_handle),
     meta |-> tile_metadata(t.msg, t.message_id, t.receipt_handle)]

\* The object upload_tile puts.
tile_object(h, t) ==
    [present |-> TRUE,
     body |-> ReadToEnd(seek0(h)),
     meta |-> tile_metadata(t.msg, t.message_id, t.receipt_handle)]

\* upload_tile (engine.py:386-448): the key decoded, the path resolved and
\* the tile read, outside the try, so that a reader that raises ends run();
\* then the put and its except clause. The reader leaves its handle at the
\* start or at the end of the data.
UploadTile ==
    /\ pc = "upload_tile"
    /\ \E d \in Durations, raises \in BOOLEAN, at_end \in BOOLEAN,
          outcome \in AllowedOutcomes :
          LET key_parts == decode_tile_key(task.msg.tile_key)
          IN  IF raises \/ ~key_parts.ok
              THEN /\ pc' = "raised"
                   /\ exit_by' = "raised"
                   /\ UNCHANGED << now, flag_vars, put_failures, bucket,
                                   put_count >>
              ELSE LET data == TilePayload(key_parts.x_index,
                                           key_parts.y_index,
                                           key_parts.z_index,
                                           key_parts.t_index)
                       h == [data |-> data,
                             pos |-> IF at_end THEN Len(data) ELSE 0]
                       key == task.msg.tile_key
                   IN  /\ now' = now + d
                       /\ IF outcome = "ok"
                          THEN /\ bucket' = [bucket EXCEPT
                                                ![key] = tile_object(h, task)]
                               /\ put_count' =
                                     [put_count EXCEPT
                                         ![key] = IF @ < 2 THEN @ + 1 ELSE @]
                               /\ pc' = upload_tile_next(TRUE)
                               /\ exit_by' = exit_by
                               /\ UNCHANGED << flag_vars, put_failures >>
                          ELSE /\ LET e == upload_tile_except(outcome,
                                              access_denied,
                                              access_denied_count,
                                              invalid_access_key,
                                              invalid_access_key_count)
                                      next == upload_tile_next(e.ret)
                                  IN  /\ access_denied' = e.access_denied
                                      /\ access_denied_count' =
                                            e.access_denied_count
                                      /\ invalid_access_key' =
                                            e.invalid_access_key
                                      /\ invalid_access_key_count' =
                                            e.invalid_access_key_count
                                      /\ pc' = IF next = "abort" THEN "done"
                                               ELSE next
                                      /\ exit_by' = IF next = "abort"
                                                    THEN "abort" ELSE exit_by
                               /\ put_failures' = put_failures + 1
                               /\ UNCHANGED << bucket, put_count >>
    /\ task' = NoTask
    /\ UNCHANGED << config_vars, credential_create_time, credentials,
                    job_status, wait_cnt, handle, cuboid_idx, upload_queue,
                    volumetric_bucket, cuboid_log, empty_polls, check_time,
                    outside_engine >>

\* upload_chunk up to its loop (engine.py:461-488): the key decoded, the
\* path resolved, the chunk read. A reader that raises ends run().
ReadChunk ==
    /\ pc = "upload_chunk"
    /\ \E raises \in BOOLEAN :
          LET key_parts == decode_chunk_key(task.msg.chunk_key)
          IN  IF raises \/ ~key_parts.ok
              THEN /\ pc' = "raised"
                   /\ exit_by' = "raised"
                   /\ task' = NoTask
                   /\ UNCHANGED << handle, cuboid_idx, cuboid_log >>
              ELSE /\ handle' = [data |-> ChunkPayload(key_parts.x_index,
                                                       key_parts.y_index,
                                                       key_parts.z_index),
                                 pos |-> 0]
                   /\ cuboid_idx' = 1
                   /\ cuboid_log' = << >>
                   /\ pc' = upload_chunk_next(TRUE, 0, Len(task.msg.cuboids))
                   /\ UNCHANGED << task, exit_by >>
    /\ UNCHANGED << config_vars, now, credential_create_time, credentials,
                    job_status, flag_vars, wait_cnt, upload_queue,
                    store_vars, empty_polls, check_time, put_failures,
                    outside_engine >>

\* The object upload_cuboid puts.
cuboid_object(chunk, c, chunk_key) ==
    [present |-> TRUE,
     body |-> CompressedCuboid(chunk, c.x, c.y, c.z),
     meta |-> cuboid_metadata(chunk_key)]

\* One turn of upload_chunk's loop (engine.py:490-497): upload_cuboid of
\* the cuboid at cuboid_idx, its except clause, and the loop's test.
UploadCuboid ==
    /\ pc = "put_cuboid"
    /\ \E d \in Durations, outcome \in AllowedOutcomes :
          /\ now' = now + d
          /\ LET c == task.msg.cuboids[cuboid_idx]
                 n == Len(task.msg.cuboids)
             IN  IF outcome = "ok"
                 THEN /\ volumetric_bucket' =
                            [volumetric_bucket EXCEPT
                                ![c.key] = cuboid_object(handle.data, c,
                                                         task.msg.chunk_key)]
                      /\ put_count' =
                            [put_count EXCEPT
                                ![c.key] = IF @ < 2 THEN @ + 1 ELSE @]
                      /\ cuboid_log' = Append(cuboid_log,
                                           [key |-> c.key, result |-> "ok"])
                      /\ pc' = upload_chunk_next(TRUE, cuboid_idx, n)
                      /\ cuboid_idx' = cuboid_idx + 1
                      /\ UNCHANGED << task, handle, exit_by, flag_vars,
                                      put_failures >>
                 ELSE /\ LET e == upload_cuboid_except(outcome, access_denied,
                                      access_denied_count, invalid_access_key,
                                      invalid_access_key_count)
                             next == upload_chunk_next(e.ret, cuboid_idx, n)
                         IN  /\ access_denied' = e.access_denied
                             /\ access_denied_count' = e.access_denied_count
                             /\ invalid_access_key' = e.invalid_access_key
                             /\ invalid_access_key_count' =
                                   e.invalid_access_key_count
                             /\ pc' = IF next = "abort" THEN "done" ELSE next
                             /\ exit_by' = IF next = "abort" THEN "abort"
                                           ELSE exit_by
                             /\ IF next = "abort"
                                THEN /\ task' = NoTask
                                     /\ handle' = NoHandle
                                     /\ cuboid_idx' = 0
                                     /\ cuboid_log' = << >>
                                ELSE /\ cuboid_log' = Append(cuboid_log,
                                           [key |-> c.key,
                                            result |-> "failed"])
                                     /\ cuboid_idx' = cuboid_idx + 1
                                     /\ UNCHANGED << task, handle >>
                      /\ put_failures' = put_failures + 1
                      /\ UNCHANGED << volumetric_bucket, put_count >>
    /\ UNCHANGED << config_vars, credential_create_time, credentials,
                    job_status, wait_cnt, upload_queue, bucket, empty_polls,
                    check_time, outside_engine >>

\* The end of upload_chunk (engine.py:499-502): delete_task, whose result
\* is dropped, and back to the loop. delete_task returns True where the
\* queue deleted the message and False where it gave up.
DeleteTask ==
    /\ pc = "delete_task"
    /\ \E deleted \in BOOLEAN :
          upload_queue' =
             IF deleted
             THEN [upload_queue EXCEPT ![task.message_id].status = "deleted"]
             ELSE upload_queue
    /\ pc' = "loop"
    /\ task' = NoTask
    /\ handle' = NoHandle
    /\ cuboid_idx' = 0
    /\ cuboid_log' = << >>
    /\ UNCHANGED << config_vars, now, credential_create_time, credentials,
                    job_status, flag_vars, wait_cnt, store_vars, empty_polls,
                    exit_by, check_time, put_failures, outside_engine >>

\* The worker is inside run().
Running ==
    pc \notin { "new", "joined", "done", "raised" }

\* The queue's visibility timeout: a message received and not deleted
\* becomes visible again. The one worker of this model cannot tell a
\* timeout during its upload of the message from one right after it, and
\* the timeout is taken after it.
VisibilityTimeout ==
    /\ Running
    /\ \E m \in Msgs :
          /\ upload_queue[m].status = "inflight"
          /\ m # task.message_id
          /\ upload_queue' = [upload_queue EXCEPT ![m].status = "visible"]
    /\ UNCHANGED << config_vars, pc, now, credential_create_time, credentials,
                    job_status, flag_vars, wait_cnt, task, handle, cuboid_idx,
                    store_vars, history_vars, outside_engine >>

\* Tile mode: the service's object-created handler deletes the message of a
\* tile that was put (likewise not during an upload of that message).
LambdaDelete ==
    /\ Running
    /\ ingest_type = "tile"
    /\ \E m \in Msgs :
          /\ upload_queue[m].status # "deleted"
          /\ m # task.message_id
          /\ bucket[TileKeyOf(m)].present
          /\ upload_queue' = [upload_queue EXCEPT ![m].status = "deleted"]
    /\ UNCHANGED << config_vars, pc, now, credential_create_time, credentials,
                    job_status, flag_vars, wait_cnt, task, handle, cuboid_idx,
                    store_vars, history_vars, outside_engine >>

\* The state after Engine's construction and configuration, with the job's
\* tasks in the work queue and the buckets empty.
EngineConstructed ==
    /\ pc = "new"
    /\ now = 0
    /\ credential_create_time = DatetimeMin
    /\ credentials = "None"
    /\ job_status = 0
    /\ access_denied = FALSE
    /\ access_denied_count = 0
    /\ invalid_access_key = FALSE
    /\ invalid_access_key_count = 0
    /\ wait_cnt = 0
    /\ task = NoTask
    /\ handle = NoHandle
    /\ cuboid_idx = 0
    /\ upload_queue = [m \in Msgs |-> [status |-> "visible", handle |-> 0]]
    /\ bucket = [k \in TileKeys |-> NoObject]
    /\ volumetric_bucket = [k \in CuboidKeys |-> NoObject]
    /\ cuboid_log = << >>
    /\ empty_polls = 0
    /\ exit_by = "running"
    /\ check_time = 0
    /\ put_failures = 0
    /\ put_count = [k \in TileKeys \cup CuboidKeys |-> 0]

Init ==
    /\ ingest_type \in { "tile", "volumetric" }
    /\ msg_wait_iterations \in 0..MaxWait
    /\ EngineConstructed
    /\ codec_pc = "off"
    /\ codec_in = << >>
    /\ codec_key = << >>
    /\ codec_out = KeyRaises
    /\ PoolOff /\ CarveOff /\ CallOff /\ ClientOff /\ WorkerOff

Next ==
    \/ EngineJoin
    \/ RunStart
    \/ LoopTop
    \/ GetTask
    \/ UploadTile
    \/ ReadChunk
    \/ UploadCuboid
    \/ DeleteTask
    \/ VisibilityTimeout
    \/ LambdaDelete

Spec ==
    Init /\ [][Next]_vars

(***************************************************************************)
(* Part 6.  The key codec, applied to fields drawn from small sets         *)
(***************************************************************************)

\* Values of a field: one and more digits, zero, a negative number.
ProjectInfos ==
    { << 1, 2, 3 >>, << 10, 0, -4 >> }

Resolutions ==
    { 0, 3 }

XIndexes ==
    { 5, 123 }

YIndexes ==
    { 6, 40 }

ZIndexes ==
    { 1, -2 }

TIndexes ==
    { 0, 11 }

TileCounts ==
    { 16, 1 }

\* The calls of test_encode_tile_key and test_encode_chunk_key are among
\* the inputs: (16,) [1, 2, 3], 0, 5, 6, 1, 0.
CodecInputs ==
    [num_tiles : TileCounts, project_info : ProjectInfos,
     resolution : Resolutions, x_index : XIndexes, y_index : YIndexes,
     z_index : ZIndexes, t_index : TIndexes]

InitCodec ==
    /\ ingest_type = "tile"
    /\ msg_wait_iterations = MaxWait
    /\ EngineConstructed
    /\ codec_pc = "input"
    /\ codec_in \in CodecInputs
    /\ codec_key = << >>
    /\ codec_out = KeyRaises
    /\ PoolOff /\ CarveOff /\ CallOff /\ ClientOff /\ WorkerOff

EncodeTile ==
    /\ codec_pc = "input"
    /\ codec_key' = encode_tile_key(codec_in.project_info,
                                    codec_in.resolution, codec_in.x_index,
                                    codec_in.y_index, codec_in.z_index,
                                    codec_in.t_index)
    /\ codec_pc' = "tile_encoded"
    /\ UNCHANGED << outside_codec, codec_in, codec_out >>

DecodeTile ==
    /\ codec_pc = "tile_encoded"
    /\ codec_out' = decode_tile_key(codec_key)
    /\ codec_pc' = "tile_decoded"
    /\ UNCHANGED << outside_codec, codec_in, codec_key >>

EncodeChunk ==
    /\ codec_pc = "input"
    /\ codec_key' = encode_chunk_key(codec_in.num_tiles,
                                     codec_in.project_info,
                                     codec_in.resolution, codec_in.x_index,
                                     codec_in.y_index, codec_in.z_index,
                                     codec_in.t_index)
    /\ codec_pc' = "chunk_encoded"
    /\ UNCHANGED << outside_codec, codec_in, codec_out >>

DecodeChunk ==
    /\ codec_pc = "chunk_encoded"
    /\ codec_out' = decode_chunk_key(codec_key)
    /\ codec_pc' = "chunk_decoded"
    /\ UNCHANGED << outside_codec, codec_in, codec_key >>

NextCodec ==
    \/ EncodeTile
    \/ DecodeTile
    \/ EncodeChunk
    \/ DecodeChunk

SpecCodec ==
    InitCodec /\ [][NextCodec]_vars

(***************************************************************************)
(* Part 7.  Properties of the key codec (under SpecCodec)                  *)
(***************************************************************************)

\* The eight fields of a tile key's input, as decode_tile_key names them.
TileFields(in) ==
    [ok |-> TRUE,
     collection |-> in.project_info[1],
     experiment |-> in.project_info[2],
     channel |-> in.project_info[3],
     resolution |-> in.resolution,
     x_index |-> in.x_index,
     y_index |-> in.y_index,
     z_index |-> in.z_index,
     t_index |-> in.t_index]

\* The nine fields of a chunk key's input.
ChunkFields(in) ==
    [ok |-> TRUE,
     num_tiles |-> in.num_tiles,
     collection |-> in.project_info[1],
     experiment |-> in.project_info[2],
     channel |-> in.project_info[3],
     resolution |-> in.resolution,
     x_index |-> in.x_index,
     y_index |-> in.y_index,
     z_index |-> in.z_index,
     t_index |-> in.t_index]

\* C3: decode_tile_key(encode_tile_key(...)) returns exactly the eight
\* integer fields that were encoded, and decode_chunk_key(encode_chunk_key(
\* ...)) exactly the nine.
C3_RoundTrip ==
    /\ codec_pc = "tile_decoded" => codec_out = TileFields(codec_in)
    /\ codec_pc = "chunk_decoded" => codec_out = ChunkFields(codec_in)

\* A chunk key with a negative and a multi-digit field, encoded and decoded.
C3_Witness ==
    /\ codec_pc = "chunk_decoded"
    /\ codec_out.ok
    /\ codec_in.z_index < 0
    /\ codec_in.x_index > 9
    /\ codec_in.num_tiles # codec_in.project_info[1]

\* The decimal fields joined by '&', written out field by field.
TileBase(in) ==
    str(in.project_info[1]) \o AmpStr \o str(in.project_info[2]) \o AmpStr
    \o str(in.project_info[3]) \o AmpStr \o str(in.resolution) \o AmpStr
    \o str(in.x_index) \o AmpStr \o str(in.y_index) \o AmpStr
    \o str(in.z_index) \o AmpStr \o str(in.t_index)

ChunkBase(in) ==
    str(in.num_tiles) \o AmpStr \o TileBase(in)

\* The input of test_encode_tile_key and test_encode_chunk_key.
TestInput ==
    [num_tiles |-> 16, project_info |-> << 1, 2, 3 >>, resolution |-> 0,
     x_index |-> 5, y_index |-> 6, z_index |-> 1, t_index |-> 0]

\* "03ca58a12ec662954ac12e06517d4269&1&2&3&0&5&6&1&0"
TestTileKey ==
    << 48, 51, 99, 97, 53, 56, 97, 49, 50, 101, 99, 54, 54, 50, 57, 53, 52,
       97, 99, 49, 50, 101, 48, 54, 53, 49, 55, 100, 52, 50, 54, 57, 38, 49,
       38, 50, 38, 51, 38, 48, 38, 53, 38, 54, 38, 49, 38, 48 >>

\* "77ff984241a0d6aa443d8724a816866d&16&1&2&3&0&5&6&1&0"
TestChunkKey ==
    << 55, 55, 102, 102, 57, 56, 52, 50, 52, 49, 97, 48, 100, 54, 97, 97, 52,
       52, 51, 100, 56, 55, 50, 52, 97, 56, 49, 54, 56, 54, 54, 100, 38, 49,
       54, 38, 49, 38, 50, 38, 51, 38, 48, 38, 53, 38, 54, 38, 49, 38, 48 >>

\* C4: an encoded key is H&base, base the '&'-joined decimal fields (with
\* num_tiles first for a chunk key) and H the MD5 hex digest of exactly
\* that base: a function of the fields alone, which for the tests' fields
\* is the tests' key.
C4_KeyForm ==
    /\ codec_pc \in { "tile_encoded", "tile_decoded" } =>
          /\ codec_key = md5_hexdigest(TileBase(codec_in)) \o AmpStr
                         \o TileBase(codec_in)
          /\ codec_in = TestInput => codec_key = TestTileKey
    /\ codec_pc \in { "chunk_encoded", "chunk_decoded" } =>
          /\ codec_key = md5_hexdigest(ChunkBase(codec_in)) \o AmpStr
                         \o ChunkBase(codec_in)
          /\ codec_in = TestInput => codec_key = TestChunkKey

\* The tests' chunk key, encoded.
C4_Witness ==
    /\ codec_pc = "chunk_encoded"
    /\ codec_in = TestInput
    /\ Len(codec_key) = 51

(***************************************************************************)
(* Part 8.  Properties of the worker (under Spec)                          *)
(***************************************************************************)

\* The age of the credentials.
CredentialAge ==
    now - credential_create_time

\* Some cuboid put of the task in hand has failed.
SomeCuboidFailed ==
    \E i \in 1..Len(cuboid_log) : cuboid_log[i].result = "failed"

\* C1: in volumetric mode delete_task is called for a task only after every
\* cuboid of the task was put successfully; after a failed cuboid put the
\* message is not deleted.
C1_DeleteOnlyAfterAllPut ==
    pc = "delete_task" =>
       /\ Len(cuboid_log) = Len(task.msg.cuboids)
       /\ \A i \in 1..Len(cuboid_log) : cuboid_log[i].result = "ok"

\* C2: the cuboids of a task are put one at a time in the order of the
\* message, and once a put has failed neither a later cuboid of the task is
\* attempted nor the message deleted.
C2_StopAtFirstFailure ==
    pc \in { "put_cuboid", "delete_task" } =>
       /\ \A i \in 1..Len(cuboid_log) :
             cuboid_log[i].key = task.msg.cuboids[i].key
       /\ cuboid_idx = Len(cuboid_log) + 1
       /\ ~SomeCuboidFailed

\* C5, as stated: no get_task, no put and no delete_task is issued while
\* the credentials are older than credential_timeout.
C5_NoCallWithStaleCredentials ==
    pc \in { "get_task", "upload_tile", "put_cuboid", "delete_task" } =>
       CredentialAge <= credential_timeout

\* C5, amended: every get_task is issued with credentials no older than
\* credential_timeout, the worker having rejoined at the top of the
\* iteration where they were (the puts and the delete_task of the iteration
\* follow with no further test).
C5_FetchWithFreshCredentials ==
    pc = "get_task" => CredentialAge <= credential_timeout

\* A get_task about to be issued after a rejoin that the age alone caused.
C5_Witness ==
    /\ pc = "get_task"
    /\ put_failures = 0
    /\ now > 0
    /\ credential_create_time = now

\* C6: inside run() the age of the credentials exceeds credential_timeout
\* by no more than the time the current iteration has taken since its test
\* of the age (the fetch and the processing of one task).
C6_AgeBoundedByIteration ==
    Running => CredentialAge - credential_timeout <= now - check_time

\* Credentials older than credential_timeout in the middle of an iteration.
C6_Witness ==
    /\ Running
    /\ pc # "loop"
    /\ CredentialAge > credential_timeout
    /\ now > check_time

\* C7: with msg_wait_iterations >= 1, run() returns as soon as
\* msg_wait_iterations polls in a row gave no message, and never returns
\* for want of messages after fewer; a poll that gives a task starts the
\* count again.
C7_ReturnsAfterEmptyPolls ==
    msg_wait_iterations >= 1 =>
       /\ empty_polls >= msg_wait_iterations =>
             pc = "done" /\ exit_by = "drained"
       /\ exit_by = "drained" => empty_polls = msg_wait_iterations
       /\ pc \in { "upload_tile", "upload_chunk" } => empty_polls = 0
       /\ wait_cnt = empty_polls

\* run() has returned after two empty polls that followed an upload.
C7_Witness ==
    /\ exit_by = "drained"
    /\ msg_wait_iterations = MaxWait
    /\ empty_polls = MaxWait
    /\ \E k \in DOMAIN put_count : put_count[k] > 0

\* C8: in tile mode the worker never deletes a message: it never comes to
\* delete_task, upload_tile leaves the work queue as it was whether its put
\* succeeds or fails, and a message is deleted by no step of the worker.
C8_TileUploadLeavesQueue ==
    [][ingest_type = "tile" =>
          /\ pc' # "delete_task"
          /\ (pc = "upload_tile" /\ pc' # pc) => upload_queue' = upload_queue
          /\ \A m \in Msgs :
                (upload_queue[m].status # "deleted"
                 /\ upload_queue'[m].status = "deleted") => pc' = pc]_vars

\* Tile mode, after a put that succeeded and one that failed, with every
\* message still in the queue.
C8_Witness ==
    /\ ingest_type = "tile"
    /\ pc = "loop"
    /\ put_failures > 0
    /\ \E k \in TileKeys : put_count[k] > 0
    /\ \A m \in Msgs : upload_queue[m].status # "deleted"

\* C9: in tile mode, where no put has failed, when run() returns the tile
\* bucket holds for every task one object under the task's tile_key, whose
\* body is what the reader returned for the task and whose metadata has
\* the task's message_id and a receipt handle.
C9_AllTilesStored ==
    (ingest_type = "tile" /\ pc = "done" /\ put_failures = 0) =>
       \A m \in Msgs :
          LET o == bucket[TileKeyOf(m)]
          IN  /\ o.present
              /\ o.body = TilePayload(5, 6, 1, m - 1)
              /\ o.meta.message_id = m
              /\ o.meta.receipt_handle \in Handles

\* C10, as stated: a put to a key that holds an object leaves the object as
\* it was, body and metadata.
C10_ReputLeavesStoreEqual ==
    [][/\ \A k \in TileKeys : bucket[k].present => bucket'[k] = bucket[k]
       /\ \A k \in CuboidKeys :
             volumetric_bucket[k].present =>
                volumetric_bucket'[k] = volumetric_bucket[k]]_vars

\* C10, amended: processing a task again leaves at its key one object with
\* the same body, the same message_id and the same JSON metadata; a cuboid
\* object is the same altogether, a tile object has the receipt handle of
\* the later delivery.
C10_ReputKeepsObject ==
    [][/\ \A k \in TileKeys :
             bucket[k].present =>
                /\ bucket'[k].present
                /\ bucket'[k].body = bucket[k].body
                /\ bucket'[k].meta.message_id = bucket[k].meta.message_id
                /\ bucket'[k].meta.metadata = bucket[k].meta.metadata
       /\ \A k \in CuboidKeys :
             volumetric_bucket[k].present =>
                volumetric_bucket'[k] = volumetric_bucket[k]]_vars

\* A tile that was put twice.
C10_Witness ==
    \E k \in TileKeys : put_count[k] = 2 /\ bucket[k].present

\* C13: a put in tile mode stores under the tile_key of the task in hand
\* an object whose metadata has the keys message_id, receipt_handle and
\* metadata, the first two being those get_task returned in this
\* iteration; a cuboid put stores metadata with the one key metadata.
C13_PutMetadata ==
    [][/\ \A k \in TileKeys :
             bucket'[k] # bucket[k] =>
                /\ k = task.msg.tile_key
                /\ DOMAIN bucket'[k].meta
                      = { "message_id", "receipt_handle", "metadata" }
                /\ bucket'[k].meta.message_id = task.message_id
                /\ bucket'[k].meta.receipt_handle = task.receipt_handle
                /\ upload_queue[task.message_id].handle
                      = task.receipt_handle
       /\ \A k \in CuboidKeys :
             volumetric_bucket'[k] # volumetric_bucket[k] =>
                DOMAIN volumetric_bucket'[k].meta = { "metadata" }]_vars

\* Every tile of the job has been put, one of them on its second delivery.
C13_Witness ==
    /\ ingest_type = "tile"
    /\ \A k \in TileKeys : bucket[k].present
    /\ \E k \in TileKeys : bucket[k].meta.receipt_handle = 2

\* C26: an error raised by the path resolver or the reader while a task is
\* processed does not end the worker: the step out of upload_tile, or out of
\* upload_chunk's reading, never ends run() with an exception.
C26_ReaderErrorSkipsTask ==
    [][(pc = "upload_tile" \/ pc = "upload_chunk") =>
          (pc' # "raised" /\ exit_by' # "raised")]_vars

\* A put has just failed with an error that is neither AccessDenied nor
\* InvalidAccessKeyId: those two always count.
OtherPutFailure ==
    /\ put_failures' = put_failures + 1
    /\ access_denied_count' = access_denied_count
    /\ invalid_access_key_count' = invalid_access_key_count

\* No AccessDenied and no InvalidAccessKeyId since run() began, so a failed
\* put of the task in hand failed with another error.
OnlyOtherFailures ==
    /\ access_denied_count = 0
    /\ invalid_access_key_count = 0

\* C31: a put that fails with an error other than AccessDenied or
\* InvalidAccessKeyId leaves the worker running, and the worker does not
\* delete the message of a task one of whose puts failed that way: the
\* message stays in the work queue for another attempt.
C31_OtherErrorKeepsTask ==
    [][/\ OtherPutFailure =>
             /\ pc' \notin { "done", "raised" }
             /\ exit_by' = exit_by
             /\ upload_queue' = upload_queue
       /\ (pc = "delete_task" /\ SomeCuboidFailed /\ OnlyOtherFailures) =>
             upload_queue' = upload_queue]_vars

\* upload_chunk has just put the last cuboid of its task, every cuboid of
\* the task having been put successfully.
AllCuboidsJustPut ==
    /\ pc = "put_cuboid"
    /\ pc' # "put_cuboid"
    /\ Len(cuboid_log') = Len(task.msg.cuboids)
    /\ \A i \in 1..Len(cuboid_log') : cuboid_log'[i].result = "ok"

\* C32: in volumetric mode, once the cuboids of a task have been put
\* successfully, the worker's next call is put_task, which writes a message
\* for the task to the tile-index queue.
C32_TileIndexMessageAfterUpload ==
    [][AllCuboidsJustPut => pc' = "put_task"]_vars

(***************************************************************************)
(* Part 9. The worker pool: several engines on one work queue             *)
(*                                                                         *)
(* client.py starts processes_nb worker processes; each builds an Engine   *)
(* of its own, joins the job and calls run(). The workers share the work   *)
(* queue and the buckets and nothing else. Each worker here is run()'s     *)
(* loop with credentials that stay fresh and a receive that is not         *)
(* refused (the rejoin and the refused receive are Spec's); a put may      *)
(* fail as in Spec; the puts are not counted here. The queue may make a    *)
(* message visible again, or the tile handler delete it, at any moment,    *)
(* also while a worker has it in hand.                                     *)
(***************************************************************************)

NumWorkers ==
    2

Workers ==
    1..NumWorkers

\* A worker's locals between two tasks.
PoolNoTask ==
    [message_id |-> 0, receipt_handle |-> 0]

PoolWorkerStarted ==
    [pc |-> "get_task", task |-> PoolNoTask, cuboid_idx |-> 0, wait_cnt |-> 0,
     failed |-> FALSE]

pool_frame ==
    << pc, now, credential_create_time, credentials, job_status, flag_vars,
       wait_cnt, task, handle, cuboid_idx, cuboid_log, empty_polls, exit_by,
       check_time, config_vars, codec_vars, carve, call, client, worker >>

\* One iteration of run() in worker w, up to the upload (engine.py:333-373).
PoolGetTask(w) ==
    /\ pool.workers[w].pc = "get_task"
    /\ IF Visible # { }
       THEN \E m \in Visible :
               LET h == NextHandle(upload_queue[m].handle)
               IN  /\ upload_queue' =
                         [upload_queue EXCEPT
                             ![m] = [status |-> "inflight", handle |-> h]]
                   /\ pool' =
                         [pool EXCEPT
                             !.workers[w] =
                                [pc |-> IF ingest_type = "tile"
                                        THEN "upload_tile" ELSE "put_cuboid",
                                 task |-> [message_id |-> m,
                                           receipt_handle |-> h],
                                 cuboid_idx |-> IF ingest_type = "tile"
                                                THEN 0 ELSE 1,
                                 wait_cnt |-> 0,
                                 failed |-> FALSE]]
       ELSE /\ pool' =
                  [pool EXCEPT
                      !.workers[w].wait_cnt = @ + 1,
                      !.workers[w].pc =
                         IF KeepWaiting(pool.workers[w].wait_cnt + 1,
                                        msg_wait_iterations)
                         THEN "get_task" ELSE "done"]
            /\ UNCHANGED upload_queue
    /\ UNCHANGED << store_vars, put_failures, pool_frame >>

\* Where a worker of the pool goes from an upload's "loop" or "abort".
PoolNext(next) ==
    IF next = "abort" THEN "done"
    ELSE IF next = "loop" THEN "get_task"
    ELSE next

\* upload_tile in worker w (engine.py:386-448).
PoolUploadTile(w) ==
    /\ pool.workers[w].pc = "upload_tile"
    /\ \E at_end \in BOOLEAN, outcome \in AllowedOutcomes,
          msg \in { MessageBody(pool.workers[w].task.message_id) } :
       \E key_parts \in { decode_tile_key(msg.tile_key) } :
       \E data \in { TilePayload(key_parts.x_index, key_parts.y_index,
                                 key_parts.z_index, key_parts.t_index) } :
          LET t == pool.workers[w].task
              h == [data |-> data, pos |-> IF at_end THEN Len(data) ELSE 0]
              e == upload_tile_except(outcome, FALSE, 0, FALSE, 0)
              ret == IF outcome = "ok" THEN TRUE ELSE e.ret
          IN  /\ key_parts.ok
              /\ IF outcome = "ok"
                 THEN /\ bucket' =
                            [bucket EXCEPT
                                ![msg.tile_key] =
                                   tile_object(h, [message_id |-> t.message_id,
                                                   receipt_handle |->
                                                      t.receipt_handle,
                                                   msg |-> msg])]
                      /\ UNCHANGED put_failures
                 ELSE /\ put_failures' = put_failures + 1
                      /\ UNCHANGED bucket
              /\ pool' =
                    [pool EXCEPT
                        !.workers[w] =
                           [PoolWorkerStarted EXCEPT
                               !.pc = PoolNext(upload_tile_next(ret))],
                        !.processed =
                           IF outcome = "ok" THEN @ \cup { t.message_id }
                           ELSE @]
    /\ UNCHANGED << upload_queue, volumetric_bucket, put_count, pool_frame >>

\* One turn of upload_chunk's loop in worker w (engine.py:490-497).
PoolUploadCuboid(w) ==
    /\ pool.workers[w].pc = "put_cuboid"
    /\ \E outcome \in AllowedOutcomes,
          msg \in { MessageBody(pool.workers[w].task.message_id) } :
       \E key_parts \in { decode_chunk_key(msg.chunk_key) } :
       \E chunk \in { ChunkPayload(key_parts.x_index, key_parts.y_index,
                                   key_parts.z_index) } :
          LET me == pool.workers[w]
              c == msg.cuboids[me.cuboid_idx]
              n == Len(msg.cuboids)
              e == upload_cuboid_except(outcome, FALSE, 0, FALSE, 0)
              ret == IF outcome = "ok" THEN TRUE ELSE e.ret
              failed == me.failed \/ outcome # "ok"
              next == PoolNext(upload_chunk_next(ret, me.cuboid_idx, n))
          IN  /\ key_parts.ok
              /\ IF outcome = "ok"
                 THEN /\ volumetric_bucket' =
                            [volumetric_bucket EXCEPT
                                ![c.key] = cuboid_object(chunk, c,
                                                         msg.chunk_key)]
                      /\ UNCHANGED put_failures
                 ELSE /\ put_failures' = put_failures + 1
                      /\ UNCHANGED volumetric_bucket
              /\ pool' =
                    [pool EXCEPT
                        !.workers[w] =
                           IF next = "done" THEN [PoolWorkerStarted
                                                     EXCEPT !.pc = "done"]
                           ELSE [me EXCEPT !.pc = next,
                                           !.cuboid_idx = @ + 1,
                                           !.failed = failed],
                        !.processed =
                           IF next = "delete_task" /\ ~failed
                           THEN @ \cup { me.task.message_id } ELSE @]
    /\ UNCHANGED << upload_queue, bucket, put_count, pool_frame >>

\* The end of upload_chunk in worker w (engine.py:499-502); delete_task
\* returns True where the queue deleted the message, False where it gave up.
PoolDeleteTask(w) ==
    /\ pool.workers[w].pc = "delete_task"
    /\ LET t == pool.workers[w].task
       IN  \E deleted \in BOOLEAN :
              /\ upload_queue' =
                    IF deleted
                    THEN [upload_queue EXCEPT
                             ![t.message_id].status = "deleted"]
                    ELSE upload_queue
    /\ pool' = [pool EXCEPT !.workers[w] = PoolWorkerStarted]
    /\ UNCHANGED << store_vars, put_failures, pool_frame >>

\* Some worker of the pool is inside run().
PoolRunning ==
    \E w \in Workers : pool.workers[w].pc # "done"

\* The queue's visibility timeout, for any message received and not
\* deleted, whoever has it in hand.
PoolVisibilityTimeout ==
    /\ PoolRunning
    /\ \E m \in Msgs :
          /\ upload_queue[m].status = "inflight"
          /\ upload_queue' = [upload_queue EXCEPT ![m].status = "visible"]
    /\ UNCHANGED << pool, store_vars, put_failures, pool_frame >>

\* Tile mode: the service's handler deletes the message of a tile that was
\* put.
PoolLambdaDelete ==
    /\ PoolRunning
    /\ ingest_type = "tile"
    /\ \E m \in Msgs :
          /\ upload_queue[m].status # "deleted"
          /\ bucket[TileKeyOf(m)].present
          /\ upload_queue' = [upload_queue EXCEPT ![m].status = "deleted"]
    /\ UNCHANGED << pool, store_vars, put_failures, pool_frame >>

\* The workers started by main(), each joined and at the top of run()'s
\* loop, the job's tasks in the queue and the buckets empty.
InitPool ==
    /\ ingest_type \in { "tile", "volumetric" }
    /\ msg_wait_iterations \in 1..MaxWait
    /\ EngineConstructed
    /\ codec_pc = "off"
    /\ codec_in = << >>
    /\ codec_key = << >>
    /\ codec_out = KeyRaises
    /\ pool = [workers |-> [w \in Workers |-> PoolWorkerStarted],
               processed |-> { }]
    /\ CarveOff /\ CallOff /\ ClientOff /\ WorkerOff

NextPool ==
    \/ \E w \in Workers : PoolGetTask(w)
    \/ \E w \in Workers : PoolUploadTile(w)
    \/ \E w \in Workers : PoolUploadCuboid(w)
    \/ \E w \in Workers : PoolDeleteTask(w)
    \/ PoolVisibilityTimeout
    \/ PoolLambdaDelete

SpecPool ==
    InitPool /\ [][NextPool]_vars

\* What one processing of task m by one worker leaves in the store: the
\* body under each key of the task.
ProcessedOnceTile(m) ==
    TilePayload(5, 6, 1, m - 1)

ProcessedOnceCuboid(m, i) ==
    << << 5, 6, 1 >>, 512 * (i - 1), 0, 0 >>

PoolDone ==
    \A w \in Workers : pool.workers[w].pc = "done"

XYZ_ORDER ==
    0

ZYX_ORDER ==
    1

XYZT_ORDER ==
    2

TZYX_ORDER ==
    3

\* The backend's native cuboid (core/consts.py): 512 x 512 x 16.
BOSS_CUBOID_X ==
    512

BOSS_CUBOID_Y ==
    512

BOSS_CUBOID_Z ==
    16

Min(a, b) ==
    IF a < b THEN a ELSE b

\* The chunk a reader returns, as an ndarray: dims names its axes in order.
ndarray(dims, sizes) ==
    [j \in 1..Len(dims) |->
        [dim |-> dims[j], off |-> 0, len |-> sizes[j], size |-> sizes[j]]]

shape(a) ==
    [j \in 1..Len(a) |-> a[j].size]

\* a[s1:e1, s2:e2, ..]: basic slicing of the leading axes, the bounds
\* clipped to the axis; the other axes whole.
getitem(a, ranges) ==
    [j \in 1..Len(a) |->
        IF j <= Len(ranges)
        THEN LET s == Min(ranges[j][1], a[j].size)
                 e == Min(ranges[j][2], a[j].size)
                 n == IF e > s THEN e - s ELSE 0
             IN  [dim |-> a[j].dim, off |-> a[j].off + s,
                  len |-> n, size |-> n]
        ELSE a[j]]

\* np.transpose(a): the axes reversed.
transpose(a) ==
    [j \in 1..Len(a) |-> a[Len(a) + 1 - j]]

\* np.expand_dims(a, 0)
expand_dims0(a) ==
    << [dim |-> "new", off |-> 0, len |-> 1, size |-> 1] >> \o a

\* np.pad(a, widths, 'constant', constant_values=0) with nothing before:
\* widths[j] entries of zero after axis j. A negative width, or widths for
\* another number of axes, raises ValueError.
pad_raises(a, widths) ==
    \/ Len(widths) # Len(a)
    \/ \E j \in 1..Len(widths) : widths[j] < 0

pad(a, widths) ==
    [j \in 1..Len(a) |-> [a[j] EXCEPT !.size = @ + widths[j]]]

NativeShape ==
    << 1, BOSS_CUBOID_Z, BOSS_CUBOID_Y, BOSS_CUBOID_X >>

\* upload_cuboid from the carving to the padding (engine.py:527-549): the
\* array it goes on to compress and put, or raises where numpy raises (the
\* except clause then logs and nothing is put).
upload_cuboid_data(chunk, x, y, z, array_order) ==
    LET ordered_array ==
           IF array_order = XYZ_ORDER \/ array_order = XYZT_ORDER
           THEN transpose(getitem(chunk, << << x, x + BOSS_CUBOID_X >>,
                                            << y, y + BOSS_CUBOID_Y >>,
                                            << z, z + BOSS_CUBOID_Z >> >>))
           ELSE getitem(chunk, << << z, z + BOSS_CUBOID_Z >>,
                                  << y, y + BOSS_CUBOID_Y >>,
                                  << x, x + BOSS_CUBOID_X >> >>)
        array_4d ==
           IF array_order = XYZ_ORDER \/ array_order = ZYX_ORDER
           THEN expand_dims0(ordered_array)
           ELSE ordered_array
        sh == shape(array_4d)
    IN  IF sh = NativeShape
        THEN [raises |-> FALSE, data |-> array_4d]
        ELSE IF Len(sh) < 4
        THEN [raises |-> TRUE, data |-> << >>]
        ELSE LET widths == << 0, BOSS_CUBOID_Z - sh[2],
                              BOSS_CUBOID_Y - sh[3], BOSS_CUBOID_X - sh[4] >>
             IN  IF pad_raises(array_4d, widths)
                 THEN [raises |-> TRUE, data |-> << >>]
                 ELSE [raises |-> FALSE, data |-> pad(array_4d, widths)]

\* Chunks and offsets: one cuboid or several along x and z, whole or with
\* a partial cuboid at the far edge; the offsets are those of cuboids that
\* begin inside the chunk.
ChunkXSizes ==
    { 512, 1024, 509 }

ChunkYSizes ==
    { 512, 501 }

ChunkZSizes ==
    { 16, 32, 13 }

ArrayOrders ==
    { XYZ_ORDER, ZYX_ORDER, XYZT_ORDER, TZYX_ORDER }

\* The chunk a reader returns for an order: its axes in that order, one
\* time sample where the order has a time axis.
ChunkOf(array_order, cx, cy, cz) ==
    IF array_order = XYZ_ORDER THEN ndarray(<< "x", "y", "z" >>, << cx, cy, cz >>)
    ELSE IF array_order = ZYX_ORDER
    THEN ndarray(<< "z", "y", "x" >>, << cz, cy, cx >>)
    ELSE IF array_order = XYZT_ORDER
    THEN ndarray(<< "x", "y", "z", "t" >>, << cx, cy, cz, 1 >>)
    ELSE ndarray(<< "t", "z", "y", "x" >>, << 1, cz, cy, cx >>)

CarveInputs ==
    { in \in [array_order : ArrayOrders, cx : ChunkXSizes, cy : ChunkYSizes,
              cz : ChunkZSizes, x : { 0, BOSS_CUBOID_X }, y : { 0 },
              z : { 0, BOSS_CUBOID_Z }] :
         in.x < in.cx /\ in.z < in.cz }

carve_frame ==
    << engine_vars, codec_vars, pool, call, client, worker >>

InitCarve ==
    /\ ingest_type = "volumetric"
    /\ msg_wait_iterations = MaxWait
    /\ EngineConstructed
    /\ codec_pc = "off"
    /\ codec_in = << >>
    /\ codec_key = << >>
    /\ codec_out = KeyRaises
    /\ \E in \in CarveInputs : carve = [pc |-> "input", in |-> in]
    /\ PoolOff /\ CallOff /\ ClientOff /\ WorkerOff

\* upload_cuboid on the input's chunk at the input's offset.
CarveCuboid ==
    /\ carve.pc = "input"
    /\ LET in == carve.in
       IN  carve' = [pc |-> "carved", in |-> in,
                     out |-> upload_cuboid_data(
                                ChunkOf(in.array_order, in.cx, in.cy, in.cz),
                                in.x, in.y, in.z, in.array_order)]
    /\ UNCHANGED carve_frame

NextCarve ==
    CarveCuboid

SpecCarve ==
    InitCarve /\ [][NextCarve]_vars

\* The array the claim describes for an input: (1, 16, 512, 512) in
\* T-Z-Y-X order, the chunk's voxels from (x, y, z) on as far as the chunk
\* goes, zeros beyond.
CarvedExtent(in) ==
    << 1, Min(BOSS_CUBOID_Z, in.cz - in.z), Min(BOSS_CUBOID_Y, in.cy - in.y),
       Min(BOSS_CUBOID_X, in.cx - in.x) >>

\* C12: for each axis order and each carved region, upload_cuboid uploads
\* an array of shape (1, 16, 512, 512) whose axes run along t (one sample),
\* z, y and x of the chunk from the offset (x, y, z), with the chunk's
\* voxels inside the carved extent and zeros outside it.
C12_CarvedCuboid ==
    carve.pc = "carved" =>
       LET in == carve.in
           a == carve.out.data
           ext == CarvedExtent(in)
       IN  /\ ~carve.out.raises
           /\ shape(a) = NativeShape
           /\ a[1].dim \in { "t", "new" } /\ a[1].off = 0 /\ a[1].len = 1
           /\ a[2].dim = "z" /\ a[2].off = in.z /\ a[2].len = ext[2]
           /\ a[3].dim = "y" /\ a[3].off = in.y /\ a[3].len = ext[3]
           /\ a[4].dim = "x" /\ a[4].off = in.x /\ a[4].len = ext[4]

(***************************************************************************)
(* Part 11.  BossBackend's calls, one at a time                            *)
(*                                                                         *)
(* `call` is one call of a backend method in progress: the method, where   *)
(* it is ("call": in its loop or before its request; "returned";           *)
(* "raised"), its retry counter, what the service last answered, the       *)
(* length of the sleep it last took (seconds for the queue calls,          *)
(* milliseconds, as the upper end of the random pause, for the HTTP        *)
(* calls; 0 for none) and its result. `server` is how the service          *)
(* answers: anything, or 500 to every request. For join, `credentials` is  *)
(* what the last 200 for a job past PREPARING carried ("empty" or          *)
(* "creds"), `handles` tells that setup_queues and setup_tile_bucket have  *)
(* run, and `empty_seen` that some response carried no credentials.        *)
(***************************************************************************)

call_frame ==
    << engine_vars, codec_vars, pool, carve, client, worker >>

NoResult ==
    "none"

CallStarted(op, server) ==
    [op |-> op, server |-> server, pc |-> "call", cnt |-> 0,
     resp |-> "none", status_code |-> 0, slept |-> 0, result |-> NoResult,
     body |-> [json |-> FALSE, data |-> [k \in { } |-> 0]], wait_secs |-> 0,
     max_retries |-> 0, credentials |-> "none", handles |-> FALSE,
     empty_seen |-> FALSE]

\* What receive_messages does: a list of messages, an empty list, or
\* botocore's ClientError.
ReceiveOutcomes ==
    { "messages", "empty", "ClientError" }

\* time.sleep(15) of get_task and delete_task.
CredentialWaitSecs ==
    15

\* One turn of get_task's loop and, where the loop ends, its return
\* (backend.py:566-583).
GetTaskReceive ==
    /\ call.op = "get_task"
    /\ call.pc = "call"
    /\ IF call.cnt < GetTaskTries
       THEN \E outcome \in ReceiveOutcomes :
               IF outcome = "ClientError"
               THEN call' = [call EXCEPT
                                !.cnt = @ + 1,
                                !.resp = outcome,
                                !.slept = CredentialWaitSecs,
                                !.pc = IF call.cnt + 1 >= 20
                                       THEN "raised" ELSE "call"]
               ELSE call' = [call EXCEPT
                                !.resp = outcome,
                                !.pc = "returned",
                                !.result = IF outcome = "messages"
                                           THEN "task" ELSE "None"]
       ELSE call' = [call EXCEPT !.pc = "returned", !.result = "None"]
    /\ UNCHANGED call_frame

\* delete_task's MAX_TRIES.
MAX_TRIES ==
    20

\* A wait that does not grow.
get_wait_time_flat(retry_num) ==
    16

\* utils/backoff.py
get_wait_time(retry_num) ==
    2 ^ (retry_num + 3)

\* What delete_messages answers: whether 'Successful' has an entry, and
\* for which Id, and whether 'Failed' has one, and whose fault it names.
DeleteResponses ==
    [success : { "none", "msg_id", "other_id" },
     failed : { "none", "sender_fault", "not_sender_fault" }]

\* One turn of delete_task's loop and, where the loop ends, its return
\* (backend.py:599-626).
DeleteTaskAttempt ==
    /\ call.op = "delete_task"
    /\ call.pc = "call"
    /\ IF call.cnt < MAX_TRIES - 1
       THEN \/ \E resp \in DeleteResponses :
                  IF resp.success = "msg_id"
                  THEN call' = [call EXCEPT !.resp = "confirmed",
                                            !.slept = 0,
                                            !.pc = "returned",
                                            !.result = "True"]
                  ELSE IF resp.failed = "sender_fault"
                  THEN call' = [call EXCEPT !.cnt = @ + 1,
                                            !.resp = "sender_fault",
                                            !.slept = 0,
                                            !.pc = "returned",
                                            !.result = "False"]
                  ELSE call' = [call EXCEPT
                                   !.cnt = @ + 1,
                                   !.resp = "unconfirmed",
                                   !.slept = get_wait_time(call.cnt + 1)]
            \/ call' = [call EXCEPT
                           !.cnt = @ + 1,
                           !.resp = "ClientError",
                           !.slept = CredentialWaitSecs,
                           !.pc = IF call.cnt + 1 >= MAX_TRIES
                                  THEN "raised" ELSE "call"]
       ELSE call' = [call EXCEPT !.pc = "returned", !.result = "False",
                                 !.resp = "none", !.slept = 0]
    /\ UNCHANGED call_frame

\* The largest max_retries put_task is called with.
MaxPutTaskRetries ==
    3

\* One turn of put_task's loop and, where the loop ends, its return
\* (backend.py:640-649): a send that succeeds returns True; one that
\* raises ClientError is counted and slept on, also when it was the last.
PutTaskAttempt ==
    /\ call.op = "put_task"
    /\ call.pc = "call"
    /\ IF call.cnt < call.max_retries + 1
       THEN \E sent \in BOOLEAN :
               IF sent
               THEN call' = [call EXCEPT !.resp = "sent",
                                         !.slept = 0,
                                         !.pc = "returned",
                                         !.result = "True"]
               ELSE call' = [call EXCEPT
                                !.cnt = @ + 1,
                                !.resp = "ClientError",
                                !.slept = get_wait_time(call.cnt + 1)]
       ELSE call' = [call EXCEPT !.pc = "returned", !.result = "False",
                                 !.resp = "none", !.slept = 0]
    /\ UNCHANGED call_frame

\* HTTP status codes a request may meet.
StatusCodes ==
    { 200, 400, 401, 404, 500, 502, 503 }

ServerAnswers(server) ==
    IF server = "always_500" THEN { 500 } ELSE StatusCodes

\* join's maximum_retries and max_pause_in_ms; get_job_status's
\* maximum_retries and the limit of its pause.
join_maximum_retries ==
    1000

max_pause_in_ms ==
    1000000

status_maximum_retries ==
    100

status_max_pause_in_ms ==
    30000

\* min(cap, 100 * 2 ** e): from e = 20 on the power is beyond either cap.
min_exp_backoff(cap, e) ==
    IF e >= 20 THEN cap ELSE Min(cap, 100 * 2 ^ e)

\* A join that gives up on a 500.
join_retried_not_500(status_code) ==
    status_code \in { 400, 502, 503 }

\* The status codes join retries (backend.py:450).
join_retried(status_code) ==
    status_code \in { 400, 500, 502, 503 }

\* A join that takes whatever credentials the response carries.
credentials_unchecked(creds) ==
    TRUE

\* `if not creds: continue` of join (backend.py:472-474), negated.
credentials_valid(creds) ==
    creds

\* The upper end of join's random pause after `retries` retries, in ms.
join_pause(retries) ==
    min_exp_backoff(max_pause_in_ms, retries + 4)

\* One turn of join's loop (backend.py:447-498): the request and what the
\* answer leads to. A 200 carries the job's status and the credentials.
JoinRequest ==
    /\ call.op = "join"
    /\ call.pc = "call"
    /\ \E status_code \in ServerAnswers(call.server),
          job_status_in \in 0..2, creds \in BOOLEAN :
          IF join_retried(status_code)
          THEN IF call.cnt + 1 > join_maximum_retries
               THEN call' = [call EXCEPT !.cnt = @ + 1,
                                         !.status_code = status_code,
                                         !.resp = "gave_up",
                                         !.pc = "raised"]
               ELSE call' = [call EXCEPT !.cnt = @ + 1,
                                         !.status_code = status_code,
                                         !.resp = "retry",
                                         !.slept = join_pause(call.cnt + 1)]
          ELSE IF status_code # 200
          THEN call' = [call EXCEPT !.status_code = status_code,
                                    !.resp = "refused",
                                    !.pc = "raised"]
          ELSE IF job_status_in = 0
          THEN call' = [call EXCEPT !.status_code = status_code,
                                    !.resp = "preparing",
                                    !.slept = 5000]
          ELSE IF ~credentials_valid(creds)
          THEN call' = [call EXCEPT !.status_code = status_code,
                                    !.resp = "no_credentials",
                                    !.slept = 0,
                                    !.credentials = "empty",
                                    !.empty_seen = TRUE]
          ELSE call' = [call EXCEPT !.status_code = status_code,
                                    !.resp = "joined",
                                    !.pc = "returned",
                                    !.credentials = IF creds THEN "creds"
                                                    ELSE "empty",
                                    !.handles = TRUE,
                                    !.result = IF job_status_in = 1
                                               THEN "UPLOADING"
                                               ELSE "COMPLETE"]
    /\ UNCHANGED call_frame

\* A get_job_status that retries a 400 as join does.
status_retried_as_join(status_code) ==
    status_code \in { 400, 500, 502, 503 }

\* The status codes get_job_status retries (backend.py:667).
status_retried(status_code) ==
    status_code \in { 500, 502, 503 }

\* The upper end of get_job_status's random pause, in ms.
status_pause(retries) ==
    min_exp_backoff(status_max_pause_in_ms, retries)

\* One turn of get_job_status's loop (backend.py:663-681).
GetJobStatusRequest ==
    /\ call.op = "get_job_status"
    /\ call.pc = "call"
    /\ \E status_code \in ServerAnswers(call.server) :
          IF status_retried(status_code)
          THEN IF call.cnt + 1 > status_maximum_retries
               THEN call' = [call EXCEPT !.cnt = @ + 1,
                                         !.status_code = status_code,
                                         !.resp = "gave_up",
                                         !.pc = "raised"]
               ELSE call' = [call EXCEPT !.cnt = @ + 1,
                                         !.status_code = status_code,
                                         !.resp = "retry",
                                         !.slept = status_pause(call.cnt + 1)]
          ELSE IF status_code # 200
          THEN call' = [call EXCEPT !.status_code = status_code,
                                    !.resp = "refused",
                                    !.pc = "raised"]
          ELSE call' = [call EXCEPT !.status_code = status_code,
                                    !.resp = "status",
                                    !.pc = "returned",
                                    !.result = "json"]
    /\ UNCHANGED call_frame

\* BackendStatus
COMPLETING ==
    5

WAIT_ON_QUEUES ==
    6

\* The values BackendStatus(..) accepts.
BackendStatuses ==
    0..6

\* The bodies of a response to complete: not JSON, or an object with or
\* without job_status (7 is no BackendStatus) and wait_secs.
CompleteBodies ==
    { [json |-> FALSE, data |-> [k \in { } |-> 0]] }
    \cup { [json |-> TRUE,
            data |-> [k \in keys |-> IF k = "job_status" THEN js ELSE ws]] :
              keys \in SUBSET { "job_status", "wait_secs" },
              js \in { 0, 1, 2, COMPLETING, WAIT_ON_QUEUES, 7 },
              ws \in { 30, 0 } }

CompleteCodes ==
    { 204, 202, 400, 200, 500 }

Raised ==
    [raises |-> TRUE, status |-> "none", wait_secs |-> 0]

Returned(status, wait_secs) ==
    [raises |-> FALSE, status |-> status, wait_secs |-> wait_secs]

\* A complete that takes any 400 for a wait.
complete_any_400_waits(status_code, body) ==
    IF status_code = 204 THEN Returned("STOP", 0)
    ELSE IF ~body.json THEN Raised
    ELSE LET data == body.data
         IN  IF status_code = 400
             THEN Returned("WAIT", IF "wait_secs" \in DOMAIN data
                                   THEN data.wait_secs ELSE 0)
             ELSE IF status_code = 202 /\ "job_status" \in DOMAIN data
             THEN IF data.job_status \notin BackendStatuses THEN Raised
                  ELSE IF data.job_status = WAIT_ON_QUEUES
                  THEN IF "wait_secs" \in DOMAIN data
                       THEN Returned("WAIT", data.wait_secs)
                       ELSE Raised
                  ELSE IF data.job_status = COMPLETING
                  THEN Returned("COMPLETING", 0)
                  ELSE Raised
             ELSE Raised

\* BossBackend.complete from the response on (backend.py:533-554).
complete(status_code, body) ==
    IF status_code = 204 THEN Returned("STOP", 0)
    ELSE IF ~body.json THEN Raised
    ELSE LET data == body.data
         IN  IF status_code = 400 /\ "wait_secs" \in DOMAIN data
             THEN Returned("WAIT", data.wait_secs)
             ELSE IF status_code = 202 /\ "job_status" \in DOMAIN data
             THEN IF data.job_status \notin BackendStatuses THEN Raised
                  ELSE IF data.job_status = WAIT_ON_QUEUES
                  THEN IF "wait_secs" \in DOMAIN data
                       THEN Returned("WAIT", data.wait_secs)
                       ELSE Raised
                  ELSE IF data.job_status = COMPLETING
                  THEN Returned("COMPLETING", 0)
                  ELSE Raised
             ELSE Raised

\* BossBackend.complete: the request and the result.
CompleteRequest ==
    /\ call.op = "complete"
    /\ call.pc = "call"
    /\ \E status_code \in CompleteCodes, body \in CompleteBodies :
          LET r == complete(status_code, body)
          IN  call' = [call EXCEPT
                          !.status_code = status_code,
                          !.body = body,
                          !.pc = IF r.raises THEN "raised" ELSE "returned",
                          !.result = r.status,
                          !.wait_secs = r.wait_secs]
    /\ UNCHANGED call_frame

InitBackend ==
    /\ ingest_type = "tile"
    /\ msg_wait_iterations = MaxWait
    /\ EngineConstructed
    /\ codec_pc = "off"
    /\ codec_in = << >>
    /\ codec_key = << >>
    /\ codec_out = KeyRaises
    /\ \E op \in { "get_task", "delete_task", "join", "get_job_status",
                   "complete", "put_task" },
          server \in { "any", "always_500" },
          max_retries \in 0..MaxPutTaskRetries :
          /\ server = "always_500" => op \in { "join", "get_job_status" }
          /\ max_retries > 0 => op = "put_task"
          /\ call = [CallStarted(op, server) EXCEPT
                        !.max_retries = max_retries]
    /\ PoolOff /\ CarveOff /\ ClientOff /\ WorkerOff

NextBackend ==
    \/ GetTaskReceive
    \/ DeleteTaskAttempt
    \/ JoinRequest
    \/ GetJobStatusRequest
    \/ CompleteRequest
    \/ PutTaskAttempt

SpecBackend ==
    InitBackend /\ [][NextBackend]_vars

\* A call in progress goes on: the sleep ends and the next request is made.
SpecBackendLive ==
    SpecBackend /\ WF_vars(NextBackend)

(***************************************************************************)
(* Part 12.  Properties of the backend's calls (under SpecBackend)         *)
(***************************************************************************)

\* C14: get_task makes at most 19 receives and, where every one of them
\* failed with a ClientError, ends by raising: it does not return.
C14_GetTaskRaisesAfterRetries ==
    call.op = "get_task" =>
       /\ call.cnt <= 19
       /\ (call.cnt = 19 /\ call.pc # "call") => call.pc = "raised"

\* C15, as stated: delete_task returns True only on a response that
\* confirms the message id; after every attempt that was not confirmed and
\* is to be followed by another it waits 2^(n+3) s, n the number of
\* attempts so far, which is at least 2^4 s; on a failure entry marked as
\* the sender's fault it returns False at once.
C15_DeleteTaskWaits ==
    [][call.op = "delete_task" =>
          /\ call'.result = "True" => call'.resp = "confirmed"
          /\ (call'.cnt = call.cnt + 1 /\ call'.resp # "sender_fault") =>
                /\ call'.slept >= 2 ^ 4
                /\ call'.slept = 2 ^ (call'.cnt + 3)
          /\ call'.resp = "sender_fault" =>
                /\ call'.pc = "returned"
                /\ call'.result = "False"
                /\ call'.slept = 0]_vars

\* C15, amended: as above where the attempt got a response that did not
\* confirm; after an attempt that raised ClientError delete_task waits 15 s,
\* whatever the number of the attempt.
C15_DeleteTaskWaitsByKind ==
    [][call.op = "delete_task" =>
          /\ call'.result = "True" => call'.resp = "confirmed"
          /\ (call'.cnt = call.cnt + 1 /\ call'.resp = "unconfirmed") =>
                /\ call'.slept >= 2 ^ 4
                /\ call'.slept = 2 ^ (call'.cnt + 3)
                /\ call'.pc = "call"
          /\ (call'.cnt = call.cnt + 1 /\ call'.resp = "ClientError") =>
                call'.slept = 15
          /\ call'.resp = "sender_fault" =>
                /\ call'.pc = "returned"
                /\ call'.result = "False"
                /\ call'.slept = 0]_vars

\* The third attempt in a row got a response that did not confirm, and
\* delete_task has slept 64 s.
C15_Witness ==
    /\ call.op = "delete_task"
    /\ call.pc = "call"
    /\ call.resp = "unconfirmed"
    /\ call.cnt = 3
    /\ call.slept = 64

\* C16: join answers 400, 500, 502 or 503 with another request, up to 1000
\* of them, and raises on the next such answer; it raises at once on any
\* other status that is not 200; and against a server that answers 500 to
\* every request it ends by raising.
C16_JoinRetries ==
    /\ [][(call.op = "join" /\ call.pc = "call" /\ call' # call) =>
             LET sc == call'.status_code
             IN  /\ (sc \in { 400, 500, 502, 503 } /\ call.cnt < 1000) =>
                       call'.pc = "call" /\ call'.cnt = call.cnt + 1
                 /\ (sc \in { 400, 500, 502, 503 } /\ call.cnt >= 1000) =>
                       call'.pc = "raised"
                 /\ sc \notin { 200, 400, 500, 502, 503 } =>
                       call'.pc = "raised" /\ call'.cnt = call.cnt]_vars
    /\ (call.op = "join" /\ call.server = "always_500")
          ~> (call.pc = "raised" /\ call.cnt = 1001)

\* join has given up after 1000 retries against a server that answers 500.
C16_Witness ==
    /\ call.op = "join"
    /\ call.server = "always_500"
    /\ call.pc = "raised"
    /\ call.cnt = 1001

C18_CompleteResult ==
    (call.op = "complete" /\ call.pc # "call") =>
       LET sc == call.status_code
           json == call.body.json
           data == call.body.data
           has_wait == json /\ "wait_secs" \in DOMAIN data
           has_status == json /\ "job_status" \in DOMAIN data
           returns(status, secs) ==
              /\ call.pc = "returned"
              /\ call.result = status
              /\ call.wait_secs = secs
       IN  IF sc = 204 THEN returns("STOP", 0)
           ELSE IF sc = 400 /\ has_wait
           THEN returns("WAIT", data.wait_secs)
           ELSE IF sc = 202 /\ has_status /\ data.job_status = 6 /\ has_wait
           THEN returns("WAIT", data.wait_secs)
           ELSE IF sc = 202 /\ has_status /\ data.job_status = 5
           THEN returns("COMPLETING", 0)
           ELSE call.pc = "raised"

\* complete has returned WAIT and 30 s for a 202 with WAIT_ON_QUEUES.
C18_Witness ==
    /\ call.op = "complete"
    /\ call.pc = "returned"
    /\ call.status_code = 202
    /\ call.result = "WAIT"
    /\ call.wait_secs = 30

\* C33: every backoff pause taken while retrying join, get_job_status,
\* delete_task or put_task is at most 30 s (30000 ms for the two HTTP
\* calls, whose pause is drawn up to call.slept), whatever the retry number.
C33_BackoffAtMost30s ==
    /\ call.op \in { "join", "get_job_status" } => call.slept <= 30000
    /\ call.op \in { "delete_task", "put_task" } => call.slept <= 30

\* C37: join never returns an empty credential bundle: a 200 for a job
\* past PREPARING whose credentials are empty is followed by another
\* request, with no handle set up, and join returns, its queue and bucket
\* handles set up, only from a response that carried credentials.
C37_JoinReturnsCredentials ==
    /\ [][(/\ call.op = "join"
           /\ call.pc = "call"
           /\ call'.status_code = 200
           /\ call'.resp # "preparing"
           /\ call'.credentials = "empty") =>
             /\ call'.pc = "call"
             /\ ~call'.handles]_vars
    /\ []((call.op = "join" /\ call.pc = "returned") =>
             /\ call.credentials = "creds"
             /\ call.handles)
    /\ []((call.op = "join" /\ call.handles) => call.pc = "returned")

\* join has returned with credentials after a response that had none.
C37_Witness ==
    /\ call.op = "join"
    /\ call.pc = "returned"
    /\ call.empty_seen
    /\ call.credentials = "creds"
    /\ call.handles

(***************************************************************************)
(* Part 13.  The coordinator: main() from the monitor loop on              *)
(*                                                                         *)
(* `client` is main()'s state once the job is joined and the worker        *)
(* processes are started: its locals should_run and job_complete, the      *)
(* --manual-complete flag, the number of worker processes alive, the       *)
(* monitor's last_task_count, and what became of engine.complete().        *)
(***************************************************************************)

client_frame ==
    << engine_vars, codec_vars, pool, carve, call, worker >>

MaxInterrupts == 2

\* A worker process inside engine.run() and between two tasks, its pipe
\* from main() empty (client.py:290-297, 93-97). `cut` tells that an
\* interrupt ended an upload of this worker before the put returned;
\* `gave_up` that the process ended through an upload that returned False
\* or an exception while the job had tasks not yet uploaded. `recv_for` is
\* the number of the interrupt that sent the worker to its pipe (0: it is
\* not there) and `pipe_for` gives, for each decision in the pipe, the
\* number of the interrupt whose prompt it answers.
WorkerStarted ==
    [state |-> "run", pipe |-> << >>, cut |-> FALSE, gave_up |-> FALSE,
     recv_for |-> 0, pipe_for |-> << >>]

\* main() with the workers started, about to monitor (client.py:288-305).
\* slept and status_polls are the seconds slept and the get_job_status
\* calls made after engine.complete() returned. `todo` is the number of
\* the job's tasks whose upload has not succeeded yet: their messages are
\* in the work queue, visible or in flight.
ClientStarted(manual_complete) ==
    [pc |-> "monitor", should_run |-> TRUE, job_complete |-> FALSE,
     manual_complete |-> manual_complete,
     workers |-> [w \in Workers |-> WorkerStarted],
     last_task_count |-> "None", quit |-> FALSE, interrupts |-> 0,
     complete_calls |-> 0, complete_result |-> Raised,
     slept |-> 0, status_polls |-> 0, todo |-> NumTasks]

\* A count that looks at the first worker only.
alive_cnt_first_worker(workers) ==
    Cardinality({ w \in { 1 } : workers[w].state # "exited" })

\* alive_cnt of Engine.monitor (engine.py:289-293)
alive_cnt(workers) ==
    Cardinality({ w \in Workers : workers[w].state # "exited" })

\* The messages a get_task can receive: those of the tasks not yet
\* uploaded that no worker has in hand.
visible(c) ==
    c.todo - Cardinality({ w \in Workers : c.workers[w].state = "upload" })

\* A worker process ends. Between two tasks: engine.run() returned because
\* get_task found no message for msg_wait_iterations polls and
\* worker_process_run leaves its loop (engine.py:352-361, client.py:96-98),
\* or join or get_task raised. During an upload: upload_tile or
\* upload_chunk returned False (engine.py:364-373), or the reader raised.
WorkerExit(w) ==
    /\ client.pc \in { "monitor", "ask", "closing" }
    /\ client.workers[w].state \in { "run", "upload" }
    /\ \E how \in { "no_more_tasks", "abort", "raised" } :
          /\ how = "no_more_tasks" =>
                /\ client.workers[w].state = "run"
                /\ visible(client) = 0
          /\ how = "abort" => client.workers[w].state = "upload"
          /\ client' = [client EXCEPT
                           !.workers[w].state = "exited",
                           !.workers[w].gave_up =
                               how # "no_more_tasks" /\ client.todo > 0]
    /\ UNCHANGED client_frame

\* A worker's get_task gives a task and upload_tile begins
\* (engine.py:352-367).
WorkerTask(w) ==
    /\ client.workers[w].state = "run"
    /\ visible(client) > 0
    /\ client' = [client EXCEPT !.workers[w].state = "upload"]
    /\ UNCHANGED client_frame

\* The put of a worker's upload returns, and the task is done, or raises
\* an Exception, and the task's message stays in the queue; the loop goes
\* on (engine.py:406-448).
WorkerPut(w) ==
    /\ client.workers[w].state = "upload"
    /\ \E stored \in BOOLEAN :
          client' = [client EXCEPT
                        !.workers[w].state = "run",
                        !.todo = IF stored THEN @ - 1 ELSE @]
    /\ UNCHANGED client_frame

\* An interrupted worker takes main()'s answer from its pipe
\* (client.py:99-101).
WorkerRecv(w) ==
    /\ client.workers[w].state = "recv"
    /\ client.workers[w].pipe # << >>
    /\ client' = [client EXCEPT
                     !.workers[w].state =
                         IF Head(client.workers[w].pipe) THEN "run" ELSE "exited",
                     !.workers[w].pipe = Tail(@),
                     !.workers[w].pipe_for = Tail(@),
                     !.workers[w].recv_for = 0]
    /\ UNCHANGED client_frame

\* One turn of Engine.monitor's loop (engine.py:257-302), inside main's
\* try (client.py:306-311): the rejoin where the credentials are old, the
\* job's status, and the count of the workers alive; with none alive
\* monitor returns and main sets job_complete. A join or a get_job_status
\* that raises ends main().
ClientMonitorTurn ==
    /\ client.pc = "monitor"
    /\ \E raises \in BOOLEAN, status \in { "status", "empty" } :
          IF raises
          THEN client' = [client EXCEPT !.pc = "raised"]
          ELSE IF status = "status" /\ client.last_task_count = "None"
          THEN client' = [client EXCEPT !.last_task_count = "set"]
          ELSE IF alive_cnt(client.workers) = 0
          THEN client' = [client EXCEPT !.pc = "closing",
                                        !.should_run = FALSE,
                                        !.job_complete = TRUE]
          ELSE client' = client
    /\ UNCHANGED client_frame

\* A worker the interrupt reaches (client.py:94-101, engine.py:425):
\* inside run() the KeyboardInterrupt, which upload_tile's
\* `except Exception` does not catch, leaves run() from wherever it is, and
\* the worker waits on its pipe. A worker already waiting there is inside
\* its except clause: the KeyboardInterrupt leaves worker_process_run and
\* the process ends.
interrupted(wkr) ==
    [wkr EXCEPT !.state = IF wkr.state = "recv" THEN "exited" ELSE "recv",
                !.cut = @ \/ wkr.state = "upload"]

\* KeyboardInterrupt. Inside monitor it is caught (client.py:312) and
\* main() asks; anywhere later it ends main(). The signal reaches any of
\* the workers inside run() too.
ClientInterrupt ==
    /\ client.pc \in { "monitor", "ask", "closing", "complete" }
    /\ client.interrupts < MaxInterrupts
    /\ \E reached \in SUBSET { w \in Workers :
                                  client.workers[w].state # "exited" } :
          client' = [client EXCEPT
                        !.pc = IF client.pc = "monitor" THEN "ask" ELSE "raised",
                        !.last_task_count = "None",
                        !.interrupts = @ + 1,
                        !.workers = [w \in Workers |->
                                        IF w \in reached
                                        THEN [interrupted(@[w]) EXCEPT
                                                 !.recv_for =
                                                    IF client.workers[w].state
                                                          = "recv"
                                                    THEN 0
                                                    ELSE client.interrupts + 1]
                                        ELSE @[w]]]
    /\ UNCHANGED client_frame

\* A notification that stops at the first worker.
notify_first_worker(workers, run) ==
    [w \in Workers |->
        IF w = 1 THEN [workers[w] EXCEPT !.pipe = Append(@, run)]
        ELSE workers[w]]

\* should_run sent down every worker's pipe (client.py:326-328).
notify_workers(workers, run) ==
    [w \in Workers |-> [workers[w] EXCEPT !.pipe = Append(@, run)]]

\* The prompt (client.py:314-328): "y" stops the upload, "n" goes on, any
\* other input asks again; then should_run is sent down every worker's pipe.
ClientAnswer ==
    /\ client.pc = "ask"
    /\ \E quit_uploading \in { "y", "n", "x" } :
          IF quit_uploading \in { "y", "n" }
          THEN LET run == IF quit_uploading = "y" THEN FALSE ELSE client.should_run
               IN  client' = [client EXCEPT
                                 !.pc = IF run THEN "monitor" ELSE "closing",
                                 !.should_run = run,
                                 !.quit = (quit_uploading = "y"),
                                 !.workers =
                                    [w \in Workers |->
                                        [notify_workers(@, run)[w] EXCEPT
                                            !.pipe_for =
                                               Append(@, client.interrupts)]]]
          ELSE client' = client
    /\ UNCHANGED client_frame

\* The test that leads to engine.complete().
should_complete_ignoring_flag(job_complete, manual_complete) ==
    job_complete

\* client.py:336-339
should_complete(job_complete, manual_complete) ==
    job_complete /\ ~manual_complete

\* main() waits for the worker processes (client.py:330-334), then ends or
\* goes on to complete the job (client.py:336-347).
ClientClose ==
    /\ client.pc = "closing"
    /\ alive_cnt(client.workers) = 0
    /\ client' = [client EXCEPT
                     !.pc = IF should_complete(client.job_complete,
                                               client.manual_complete)
                            THEN "complete" ELSE "exit"]
    /\ UNCHANGED client_frame

\* engine.complete() (client.py:341; Engine.complete, engine.py:208-219):
\* one call of backend.complete, its result dropped; main() ends.
ClientComplete ==
    /\ client.pc = "complete"
    /\ \E status_code \in CompleteCodes, body \in CompleteBodies :
          LET r == complete(status_code, body)
          IN  client' = [client EXCEPT
                            !.pc = IF r.raises THEN "raised" ELSE "exit",
                            !.complete_calls = @ + 1,
                            !.complete_result = r]
    /\ UNCHANGED client_frame

InitClient ==
    /\ ingest_type = "tile"
    /\ msg_wait_iterations = MaxWait
    /\ EngineConstructed
    /\ codec_pc = "off"
    /\ codec_in = << >>
    /\ codec_key = << >>
    /\ codec_out = KeyRaises
    /\ \E manual_complete \in BOOLEAN : client = ClientStarted(manual_complete)
    /\ PoolOff /\ CarveOff /\ CallOff /\ WorkerOff

NextClient ==
    \/ \E w \in Workers : WorkerTask(w)
    \/ \E w \in Workers : WorkerPut(w)
    \/ \E w \in Workers : WorkerExit(w)
    \/ \E w \in Workers : WorkerRecv(w)
    \/ ClientMonitorTurn
    \/ ClientInterrupt
    \/ ClientAnswer
    \/ ClientClose
    \/ ClientComplete

SpecClient ==
    InitClient /\ [][NextClient]_vars

\* main() is a running process: while it is inside Engine.monitor, whose
\* loop has no exit but its break and its exceptions and sleeps 10 s a
\* turn, another turn of the loop is taken.
SpecClientLive ==
    SpecClient /\ WF_vars(ClientMonitorTurn)

(***************************************************************************)
(* Part 14.  Properties of the coordinator                                 *)
(***************************************************************************)

\* C19: once monitoring has ended normally the coordinator drives the
\* completion to its end: after a WAIT of n seconds it sleeps n seconds and
\* calls complete again, after COMPLETING (the spec's POLLING) it polls
\* get_job_status, and main() ends cleanly only after STOP (the spec's
\* DONE) or after polling a terminal status.
C19_CompletionDriven ==
    (client.pc = "exit" /\ client.complete_calls > 0) =>
       /\ client.complete_result.status # "WAIT"
       /\ client.complete_result.status = "COMPLETING" => client.status_polls > 0
       /\ client.complete_result.status = "STOP" \/ client.status_polls > 0

\* C20: complete is called only where monitor returned with every worker
\* exited and --manual-complete was not given; a main() that ends cleanly
\* has called complete, once, exactly in that case; so with
\* --manual-complete, or after a quit the user confirmed, complete is not
\* called.
C20_CompleteIffWorkersDone ==
    /\ client.job_complete =>
          /\ alive_cnt(client.workers) = 0
          /\ ~client.quit
    /\ client.complete_calls > 0 =>
          /\ client.job_complete
          /\ ~client.manual_complete
          /\ ~client.quit
    /\ client.pc \in { "complete", "exit" } =>
          /\ (client.manual_complete \/ client.quit) => client.complete_calls = 0
          /\ client.pc = "exit" =>
                (client.complete_calls = 1
                    <=> (client.job_complete /\ ~client.manual_complete))
          /\ client.pc = "complete" =>
                (client.job_complete /\ ~client.manual_complete)

\* main() has ended after one call of complete, the user having
\* interrupted the monitor and chosen to go on.
C20_Witness ==
    /\ client.pc = "exit"
    /\ client.complete_calls = 1
    /\ client.interrupts > 0
    /\ ~client.manual_complete

\* C23: an interrupt that reaches a worker during a put does not cut the
\* upload short: no upload ends before its put has succeeded or failed.
C23_NoUploadCutShort ==
    \A w \in Workers : ~client.workers[w].cut

\* A stop signal (should_run False) is in worker w's pipe.
StopSent(w) ==
    \E i \in DOMAIN client.workers[w].pipe : ~client.workers[w].pipe[i]

\* C24: where the user confirms quitting, the stop signal is sent down
\* every worker's pipe, and main() then ends only with every worker process
\* ended.
C24_StopEveryWorkerThenWait ==
    /\ [][(client.pc = "ask" /\ client'.quit) =>
             \A w \in Workers :
                client'.workers[w].pipe
                   = Append(client.workers[w].pipe, FALSE)]_vars
    /\ []((client.quit /\ client.pc = "exit") =>
             alive_cnt(client.workers) = 0)

\* The user has confirmed quitting, and main() waits for a worker that the
\* interrupt did not reach and that has the stop signal unread in its pipe.
C24_Witness ==
    /\ client.quit
    /\ client.pc = "closing"
    /\ \E w \in Workers :
          /\ client.workers[w].state = "upload"
          /\ StopSent(w)

\* C25: a worker with the stop signal in its pipe starts no further task.
C25_NoTaskAfterStop ==
    [][\A w \in Workers :
          (StopSent(w) /\ client.workers[w].state = "run") =>
             client'.workers[w].state # "upload"]_vars

\* Every worker process has ended.
NoWorkerAlive ==
    \A w \in Workers : client.workers[w].state = "exited"

\* A turn of monitor's loop that changed something: it raised, recorded
\* the first task count, or left the loop.
MonitorTurn ==
    /\ client.pc = "monitor"
    /\ client' # client
    /\ client'.interrupts = client.interrupts
    /\ client'.workers = client.workers

\* monitor has returned: its loop was left through the break.
MonitorReturns ==
    /\ MonitorTurn
    /\ client'.pc = "closing"
    /\ client'.job_complete

\* C34, as stated: every turn of the monitor loop checks whether a worker
\* is alive, so that a turn taken with no worker alive leaves the loop; the
\* loop is not left normally while a worker is alive; and once no worker
\* is alive the coordinator leaves the loop.
C34_EveryTurnChecksWorkers ==
    /\ [][/\ (MonitorTurn /\ NoWorkerAlive) =>
                client'.pc # "monitor"
          /\ MonitorReturns => NoWorkerAlive]_vars
    /\ (client.pc = "monitor" /\ NoWorkerAlive)
          ~> (client.pc # "monitor")

\* C34, amended: every turn of the monitor loop but the one that records
\* the first task count of a call of monitor (it goes straight to the next
\* turn) checks whether a worker is alive: with the count recorded, a turn
\* taken with no worker alive leaves the loop; the loop is not left
\* normally while a worker is alive; and once no worker is alive the
\* coordinator leaves the loop.
C34_MonitorEndsWhenNoWorkerAlive ==
    /\ [][/\ (/\ MonitorTurn
              /\ NoWorkerAlive
              /\ client.last_task_count = "set") =>
                client'.pc # "monitor"
          /\ (/\ MonitorTurn
              /\ client'.pc = "monitor") =>
                /\ client.last_task_count = "None"
                /\ client'.last_task_count = "set"
          /\ MonitorReturns => NoWorkerAlive]_vars
    /\ (client.pc = "monitor" /\ NoWorkerAlive)
          ~> (client.pc # "monitor")

\* monitor has returned with every worker exited, after a turn that only
\* recorded the task count, and nobody interrupted.
C34_Witness ==
    /\ client.pc = "closing"
    /\ client.job_complete
    /\ client.last_task_count = "set"
    /\ client.interrupts = 0
    /\ NoWorkerAlive

\* C35: a worker that an interrupt has sent to its pipe neither ends nor
\* starts a task before it has read a decision there; it ends where the
\* decision is to stop and goes back into run() otherwise.
C35_WaitsForDecision ==
    [][\A w \in Workers :
          (client.workers[w].state = "recv"
           /\ client'.workers[w] # client.workers[w]
           /\ client'.workers[w].state # "recv") =>
             /\ client.workers[w].pipe # << >>
             /\ client'.workers[w].pipe = Tail(client.workers[w].pipe)
             /\ client'.workers[w].state =
                   IF Head(client.workers[w].pipe) THEN "run"
                   ELSE "exited"]_vars

\* C36: where monitor returns and main() calls complete, the workers have
\* drained the work queue: no task of the job is left without its upload,
\* and no worker process ended through an abort or an exception while
\* tasks were still to be uploaded.
C36_CompleteOnlyWhenDrained ==
    (client.pc = "complete" \/ client.complete_calls > 0) =>
       /\ client.todo = 0
       /\ \A w \in Workers : ~client.workers[w].gave_up

\* C38: the decision a worker reads while it waits on its pipe after an
\* interrupt is the answer to the prompt of that interrupt, never one that
\* was sent for an earlier interrupt.
C38_DecisionOfLatestPrompt ==
    [][\A w \in Workers :
          (/\ client.workers[w].state = "recv"
           /\ client.workers[w].pipe # << >>
           /\ client'.workers[w].pipe = Tail(client.workers[w].pipe)) =>
             Head(client.workers[w].pipe_for) = client.workers[w].recv_for]_vars

(***************************************************************************)
(* Part 15.  One worker's loop, with its credentials and error counters    *)
(*                                                                         *)
(* `worker` is a worker process from worker_process_run's engine.join()    *)
(* to the end of run(), in tile mode, with the work queue seen only as     *)
(* what get_task returns and the bucket only as how a put ends, so that    *)
(* the counters of run() can reach their limits. The clock is counted in   *)
(* ticks of its own resolution: every call that talks to a service or      *)
(* writes a log line takes at least one. Only the credentials' age is      *)
(* kept, up to MaxAge, which is beyond every credential_timeout here and   *)
(* stands for the age of datetime.min as well.                             *)
(***************************************************************************)

worker_frame ==
    << engine_vars, codec_vars, pool, carve, call, client >>

MaxAge ==
    4

MaxStep ==
    2

\* backend.credential_timeout, in ticks: the 0 a test sets, and a longer one.
CredentialTimeouts ==
    { 0, 3 }

\* worker_process_run with its Engine constructed (client.py:82-88).
WorkerConstructed(timeout, iterations) ==
    [pc |-> "join", credential_timeout |-> timeout,
     msg_wait_iterations |-> iterations,
     credentials |-> "None", job_status |-> 0, age |-> MaxAge,
     access_denied |-> FALSE, access_denied_count |-> 0,
     invalid_access_key |-> FALSE, invalid_access_key_count |-> 0,
     wait_cnt |-> 0, exit_by |-> "running",
     \* History, read by the properties only.
     rejoins |-> 0,            \* joins of the loop since the last get_task
     top_age |-> 0,            \* the age the loop's top found, until get_task
     get_tasks |-> 0,          \* get_task calls, counted to 2
     last_put |-> "none",      \* how the put since the last get_task ended
     ok_since_denied |-> FALSE,       \* a put succeeded after an AccessDenied
     ok_since_invalid_key |-> FALSE]  \* ... after an InvalidAccessKeyId

\* The age d ticks later.
Older(age, d) ==
    Min(age + d, MaxAge)

\* engine.join() of worker_process_run (client.py:91): backend.join gives
\* the credentials and the job's status, any but PREPARING
\* (backend.py:463-498), Engine.join reads the clock and logs
\* (engine.py:189-193).
WorkerJoin ==
    /\ worker.pc = "join"
    /\ \E ok \in BOOLEAN, st \in BackendStatuses \ { 0 }, d \in 1..MaxStep :
          worker' = IF ok
                    THEN [worker EXCEPT !.pc = "run",
                                        !.credentials = "creds",
                                        !.job_status = st,
                                        !.age = d]
                    ELSE [worker EXCEPT !.pc = "raised",
                                        !.exit_by = "raised"]
    /\ UNCHANGED worker_frame

\* run()'s refusals (engine.py:310-324).
run_refuses(creds, status) ==
    creds = "None" \/ status = 0 \/ status = 2

\* run() up to its loop (engine.py:310-333).
WorkerRunStart ==
    /\ worker.pc = "run"
    /\ worker' = IF run_refuses(worker.credentials, worker.job_status)
                 THEN [worker EXCEPT !.pc = "raised", !.exit_by = "raised"]
                 ELSE [worker EXCEPT !.pc = "loop",
                                     !.access_denied = FALSE,
                                     !.access_denied_count = 0,
                                     !.invalid_access_key = FALSE,
                                     !.invalid_access_key_count = 0,
                                     !.wait_cnt = 0]
    /\ UNCHANGED worker_frame

\* Marks that leave the credentials alone after an AccessDenied.
loop_top_marks_invalid_key_only(ad, iak, iakc, age) ==
    IF iak /\ iakc % InvalidKeyRejoinEvery = InvalidKeyRejoinEvery - 1
    THEN MaxAge ELSE age

\* The credentials' age after the loop's marks (engine.py:334-342):
\* credential_create_time becomes datetime.min after an AccessDenied, and
\* after an InvalidAccessKeyId where the counter is 4 modulo 5.
loop_top_marks(ad, iak, iakc, age) ==
    IF ad THEN MaxAge
    ELSE IF iak /\ iakc % InvalidKeyRejoinEvery = InvalidKeyRejoinEvery - 1
    THEN MaxAge ELSE age

\* A test of the age that allows one tick more.
needs_renewal_late(total_seconds, timeout) ==
    total_seconds > timeout + 1

\* engine.py:344-345
needs_renewal(total_seconds, timeout) ==
    total_seconds > timeout

\* The top of the loop (engine.py:334-349): the marks, the age test, and
\* the join where the credentials are too old.
WorkerLoopTop ==
    /\ worker.pc = "loop"
    /\ \E ok \in BOOLEAN, st \in JoinStatuses :
          LET age == loop_top_marks(worker.access_denied,
                                    worker.invalid_access_key,
                                    worker.invalid_access_key_count,
                                    worker.age)
              top == [worker EXCEPT !.access_denied = FALSE,
                                    !.invalid_access_key = FALSE,
                                    !.age = age,
                                    !.top_age = worker.age]
          IN  worker' =
                 IF needs_renewal(age, worker.credential_timeout)
                 THEN IF ok
                      THEN [top EXCEPT !.pc = "get_task",
                                       !.credentials = "creds",
                                       !.job_status = st,
                                       !.age = 0,
                                       !.rejoins = @ + 1]
                      ELSE [top EXCEPT !.pc = "raised",
                                       !.exit_by = "raised",
                                       !.rejoins = @ + 1]
                 ELSE [top EXCEPT !.pc = "get_task"]
    /\ UNCHANGED worker_frame

\* get_task and run()'s handling of its result (engine.py:352-361).
WorkerGetTask ==
    /\ worker.pc = "get_task"
    /\ \E msg \in BOOLEAN, d \in 1..MaxStep :
          LET got == [worker EXCEPT !.age = Older(@, d),
                                    !.rejoins = 0,
                                    !.top_age = 0,
                                    !.last_put = "none",
                                    !.get_tasks = Min(@ + 1, 2)]
          IN  worker' =
                 IF msg
                 THEN [got EXCEPT !.pc = "upload_tile", !.wait_cnt = 0]
                 ELSE IF KeepWaiting(worker.wait_cnt + 1,
                                     worker.msg_wait_iterations)
                 THEN [got EXCEPT !.pc = "loop", !.wait_cnt = @ + 1]
                 ELSE [got EXCEPT !.pc = "done", !.wait_cnt = @ + 1,
                                  !.exit_by = "drained"]
    /\ UNCHANGED worker_frame

\* upload_tile (engine.py:386-448) and the test of its result
\* (engine.py:365-367): a resolver or a reader that raises ends run(); the
\* put succeeds or ends in the except clause.
WorkerUploadTile ==
    /\ worker.pc = "upload_tile"
    /\ \E raises \in BOOLEAN, outcome \in PutOutcomes, d \in 1..MaxStep :
          LET e == upload_tile_except(outcome, worker.access_denied,
                                      worker.access_denied_count,
                                      worker.invalid_access_key,
                                      worker.invalid_access_key_count)
              ret == IF outcome = "ok" THEN TRUE ELSE e.ret
              next == upload_tile_next(ret)
              put == [worker EXCEPT !.age = Older(@, d),
                                    !.last_put = outcome]
          IN  worker' =
                 IF raises
                 THEN [worker EXCEPT !.pc = "raised", !.exit_by = "raised"]
                 ELSE IF outcome = "ok"
                 THEN [put EXCEPT
                          !.pc = "loop",
                          !.ok_since_denied =
                             @ \/ worker.access_denied_count > 0,
                          !.ok_since_invalid_key =
                             @ \/ worker.invalid_access_key_count > 0]
                 ELSE [put EXCEPT
                          !.pc = IF next = "abort" THEN "done" ELSE next,
                          !.exit_by = IF next = "abort" THEN "abort" ELSE @,
                          !.access_denied = e.access_denied,
                          !.access_denied_count = e.access_denied_count,
                          !.invalid_access_key = e.invalid_access_key,
                          !.invalid_access_key_count =
                             e.invalid_access_key_count]
    /\ UNCHANGED worker_frame

InitWorker ==
    /\ ingest_type = "tile"
    /\ msg_wait_iterations = MaxWait
    /\ EngineConstructed
    /\ codec_pc = "off"
    /\ codec_in = << >>
    /\ codec_key = << >>
    /\ codec_out = KeyRaises
    /\ \E timeout \in CredentialTimeouts :
          worker = WorkerConstructed(timeout, 1)
    /\ PoolOff /\ CarveOff /\ CallOff /\ ClientOff

NextWorker ==
    \/ WorkerJoin
    \/ WorkerRunStart
    \/ WorkerLoopTop
    \/ WorkerGetTask
    \/ WorkerUploadTile

SpecWorker ==
    InitWorker /\ [][NextWorker]_vars

(***************************************************************************)
(* Part 16.  Properties of the worker's loop (under SpecWorker)            *)
(***************************************************************************)

\* C21: with credential_timeout 0 the loop joins exactly once before every
\* get_task, the first and each later one.
C21_RejoinBeforeEveryGetTask ==
    (worker.credential_timeout = 0 /\ worker.pc = "get_task") =>
       worker.rejoins = 1

\* With credential_timeout 0 the worker is about to call get_task for the
\* third time, after the one join of this turn of the loop.
C21_Witness ==
    /\ worker.credential_timeout = 0
    /\ worker.pc = "get_task"
    /\ worker.get_tasks = 2
    /\ worker.rejoins = 1

\* C22: run() enters its loop only with the job status UPLOADING (1) from
\* the join; with any other status it refuses.
C22_LoopOnlyWhenUploading ==
    [][(worker.pc = "run" /\ worker'.pc = "loop") => worker.job_status = 1]_vars

\* C27: the worker aborts its loop on a credential error of a put exactly
\* when 20 failures of that kind have occurred in a row: failures of the
\* kind with a successful upload between them do not add up to the limit.
C27_AbortAfterConsecutiveFailures ==
    /\ worker.exit_by = "abort" =>
          /\ worker.last_put = "AccessDenied" => ~worker.ok_since_denied
          /\ worker.last_put = "InvalidAccessKeyId" =>
                ~worker.ok_since_invalid_key
    /\ (worker.pc = "loop" /\ worker.last_put = "AccessDenied") =>
          worker.access_denied_count < MaxSameError
    /\ (worker.pc = "loop" /\ worker.last_put = "InvalidAccessKeyId") =>
          worker.invalid_access_key_count < MaxSameError

\* C28: after a put that failed with AccessDenied without reaching the
\* limit, the next turn of the loop joins before it calls get_task, however
\* young the credentials are.
C28_RejoinAfterAccessDenied ==
    [][(worker.pc = "loop" /\ worker.last_put = "AccessDenied") =>
          /\ worker'.rejoins = 1
          /\ worker'.pc \in { "get_task", "raised" }]_vars

\* After an AccessDenied the loop has joined with credentials that were
\* younger than the long credential_timeout.
C28_Witness ==
    /\ worker.credential_timeout = 3
    /\ worker.top_age <= 3
    /\ worker.pc = "get_task"
    /\ worker.last_put = "AccessDenied"
    /\ worker.rejoins = 1
    /\ worker.access_denied_count = 1
    /\ worker.get_tasks = 1

\* C29: of the puts that fail with InvalidAccessKeyId, counted from 1, the
\* 5th, 10th and 15th, and no other, make the next turn of the loop join
\* though the credentials are young.
C29_EveryFifthInvalidKeyRejoins ==
    [][(/\ worker.pc = "loop"
        /\ worker.last_put = "InvalidAccessKeyId"
        /\ ~worker.access_denied
        /\ ~needs_renewal(worker.age, worker.credential_timeout)) =>
          (worker'.rejoins = 1
              <=> worker.invalid_access_key_count % InvalidKeyRejoinEvery = 0)]_vars

\* C30: a join inside the loop, for credentials too old or marked stale,
\* leaves both error counters at zero.
C30_RejoinResetsCounters ==
    [][(worker.pc = "loop" /\ worker'.pc = "get_task" /\ worker'.rejoins = 1) =>
          /\ worker'.access_denied_count = 0
          /\ worker'.invalid_access_key_count = 0]_vars

\* C39: once a rejoin inside run() has reported a job status other than
\* UPLOADING (1), the worker fetches no further task: the get_task that
\* follows such a rejoin is not made.
C39_NoFetchAfterJobEnded ==
    [][(/\ worker.pc = "get_task"
        /\ worker'.pc # "get_task"
        /\ worker.rejoins > 0) =>
          worker.job_status = 1]_vars

=============================================================================
